---- MODULE Spec2Model ----
(***************************************************************************)
(* The OAuth2 authorization server of garmin_mcp (GarminOAuthProvider,     *)
(* oauth_provider.py) with its SessionManager (session_manager.py), as a   *)
(* state machine.                                                          *)
(*                                                                         *)
(* The SQLite tables are sets of rows, the in-memory dictionaries are sets *)
(* of entries, time.time() is the variable now, and every value drawn from *)
(* secrets.token_urlsafe / secrets.token_hex is a fresh number.  A request *)
(* handler runs on the asyncio event loop: it is atomic between its awaits *)
(* of the upstream login (run_in_executor), which is where requests        *)
(* interleave.                                                             *)
(***************************************************************************)
EXTENDS Integers, Sequences, FiniteSets, Bags, TLC

\* ------------------------------------------------------------ bounds
\* Calls of authorize in one run.
MaxAuthorize == 2
\* Token pairs issued in one run (code exchanges and refreshes together).
MaxIssues == 3
\* Credential sets the upstream identity provider hands out in one run
\* (successful logins and successful MFA verifications together).
MaxLogins == 2
\* Resume states the upstream identity provider hands out in one run
\* (logins that it answers with "needs_mfa").
MaxResume == 1
\* The same, in the runs in which the login form is submitted again.
MaxPending == 2
\* Clock advances in one run.
MaxTicks == 1
\* Requests followed statement by statement at the same time.
NumRequests == 2

\* ------------------------------------------------- program constants
MFA_TTL == 300
STATE_TTL == 900
CODE_TTL == 300
ACCESS_TTL == 3600
REFRESH_TTL == 86400 * 30
CACHE_TTL == 3600

\* Python's None, and the empty string of a missing form field.
None == "None"
EmptyStr == ""

\* ------------------------------------------------------------ inputs
ClientIds == {"c1", "c2"}
Emails == {"a@x", "b@x"}
\* token_hex(16) values of the users table, in the order they are drawn.
UserIdPool == <<"u1", "u2">>
\* Seconds by which the clock may advance between two steps.
TickSteps == {300, 3601}
\* A state value no authorize call has handed out.
UnknownState == "forged"

\* A string that is parsed is a sequence of characters; a scope list is a
\* sequence of such strings.
ScopeR == <<"r">>
ScopeW == <<"w">>
ScopeRW == <<"r", ",", "w">>

\* The authorize requests of a run, in the order they arrive: each client
\* with the AuthorizationParams it sends.
AuthRequests ==
    << [client |-> "c1",
        params |-> [scopes |-> <<ScopeRW, ScopeW>>, code_challenge |-> "x",
                    redirect_uri |-> "https://cb",
                    redirect_uri_provided_explicitly |-> TRUE,
                    state |-> "cs1"]],
       [client |-> "c2",
        params |-> [scopes |-> <<>>, code_challenge |-> "y",
                    redirect_uri |-> "https://cb2",
                    redirect_uri_provided_explicitly |-> FALSE,
                    state |-> None]] >>
\* The n-th authorize request of a run (the two above, in turn).
AuthRequest(n) == AuthRequests[((n - 1) % Len(AuthRequests)) + 1]

\* ------------------------------------------------- string conversions
\* sep.join(l)
RECURSIVE Join(_, _)
Join(sep, l) ==
    IF l = <<>> THEN <<>>
    ELSE IF Len(l) = 1 THEN l[1]
    ELSE l[1] \o <<sep>> \o Join(sep, Tail(l))

\* s.split(","), cur being the piece read so far
RECURSIVE SplitAcc(_, _)
SplitAcc(s, cur) ==
    IF s = <<>> THEN <<cur>>
    ELSE IF Head(s) = "," THEN <<cur>> \o SplitAcc(Tail(s), <<>>)
    ELSE SplitAcc(Tail(s), Append(cur, Head(s)))

\* row["scopes"].split(",") if row["scopes"] else []
ParseScopes(s) == IF s # <<>> THEN SplitAcc(s, <<>>) ELSE <<>>

\* params.scopes or []: a scope list that is None is written <<>> here, which
\* is what "or" turns it into.
OrEmpty(l) == IF Len(l) = 0 THEN <<>> ELSE l

\* The n-th value secrets.token_urlsafe returns.
Secret(n) == "s" \o ToString(n)

\* ------------------------------------------------------------- state
VARIABLES
    now,             \* time.time()
    ticks,           \* clock advances so far
    nextSecret,      \* index of the next value secrets.token_urlsafe returns
    nAuthorize,      \* authorize calls so far
    nIssues,         \* token pairs issued so far
    nLogins,         \* credential sets handed out by the upstream so far
    nResume,         \* resume states handed out by the upstream so far
    oauth_clients,   \* table oauth_clients
    users,           \* table users
    auth_codes,      \* table auth_codes
    access_tokens,   \* table access_tokens
    refresh_tokens,  \* table refresh_tokens
    pending_mfa,     \* GarminOAuthProvider._pending_mfa
    inflight,        \* handle_mfa_callback requests suspended in run_in_executor
    token_user_map,  \* SessionManager._token_user_map
    cache,           \* SessionManager._cache
    disk,            \* the per-user token directories under storage_path
    held_codes,      \* AuthorizationCode objects load_authorization_code returned
    held_refresh,    \* RefreshToken objects load_refresh_token returned
    minted_for,      \* history: the account whose login minted each code
    registered,      \* history: the last client_info passed to register_client, per id
    origin,          \* history: the code each issued token goes back to
    failed_mfa,      \* history: the pending entries a failed verification restored
    mfa_lock,        \* GarminOAuthProvider._mfa_lock: the request inside its with block
    cache_lock,      \* SessionManager._lock: the request inside its with block
    threads,         \* where each request under way stands in its handler
    resp             \* the last call and what it returned

counters == <<nextSecret, nAuthorize, nIssues, nLogins, nResume>>
clock == <<now, ticks>>
tables == <<users, auth_codes, access_tokens, refresh_tokens>>
session == <<token_user_map, cache, disk>>
held == <<held_codes, held_refresh>>
history == <<minted_for, origin, failed_mfa>>
\* What the authorization flow and the token endpoint never touch.
clients == <<oauth_clients, registered>>
\* The two mutexes and the requests that take them step by step.
locks == <<mfa_lock, cache_lock, threads>>

vars == <<now, ticks, nextSecret, nAuthorize, nIssues, nLogins, nResume, oauth_clients,
          users, auth_codes, access_tokens, refresh_tokens, pending_mfa,
          inflight, token_user_map, cache, disk, held_codes, held_refresh,
          minted_for, registered, origin, failed_mfa, mfa_lock, cache_lock,
          threads, resp>>

\* ------------------------------------------------------------ tables
\* An optional object (a row of fetchone(), a returned descriptor) is the empty
\* set for None and the singleton of the object otherwise.
Nothing == {}
Some(x) == {x}
The(o) == CHOOSE x \in o : TRUE

\* The requests whose handlers are followed statement by statement, and a
\* request that is in no handler.
Requests == 1..NumRequests
Idle == [at |-> "idle"]
NoRequests == [r \in Requests |-> Idle]

Init ==
    /\ now = 0
    /\ ticks = 0
    /\ nextSecret = 1
    /\ nAuthorize = 0
    /\ nIssues = 0
    /\ nLogins = 0
    /\ nResume = 0
    /\ oauth_clients = {}
    /\ users = {}
    /\ auth_codes = {}
    /\ access_tokens = {}
    /\ refresh_tokens = {}
    /\ pending_mfa = {}
    /\ inflight = {}
    /\ token_user_map = {}
    /\ cache = {}
    /\ disk = {}
    /\ held_codes = {}
    /\ held_refresh = {}
    /\ minted_for = {}
    /\ registered = {}
    /\ origin = {}
    /\ failed_mfa = {}
    /\ mfa_lock = Nothing
    /\ cache_lock = Nothing
    /\ threads = NoRequests
    /\ resp = [op |-> "init"]

\* time.time() advances between two calls.
Tick ==
    /\ ticks < MaxTicks
    /\ \E d \in TickSteps : now' = now + d
    /\ ticks' = ticks + 1
    /\ resp' = [op |-> "tick"]
    /\ UNCHANGED <<locks, counters, clients, tables, pending_mfa, inflight,
                   session, held, history>>

\* GarminOAuthProvider.authorize
Authorize(client, params) ==
    /\ nAuthorize < MaxAuthorize
    /\ LET state_token == Secret(nextSecret)
       IN /\ auth_codes' = auth_codes \cup
                {[code |-> state_token,
                  client_id |-> client,
                  user_id |-> None,
                  scopes |-> Join(",", OrEmpty(params.scopes)),
                  code_challenge |-> params.code_challenge,
                  redirect_uri |-> params.redirect_uri,
                  redirect_uri_provided_explicitly |->
                      IF params.redirect_uri_provided_explicitly THEN 1 ELSE 0,
                  client_state |-> params.state,
                  expires_at |-> now + STATE_TTL]}
          /\ resp' = [op |-> "authorize", client |-> client,
                      state |-> state_token, url |-> "/login?state="]
    /\ nextSecret' = nextSecret + 1
    /\ nAuthorize' = nAuthorize + 1
    /\ UNCHANGED <<locks, clock, nIssues, nLogins, nResume, clients, users,
                   access_tokens, refresh_tokens, pending_mfa, inflight,
                   session, held, history>>

\* load_authorization_code with "AND user_id IS NOT NULL" left out of its query
LoadAuthorizationCode_AnyUser(client, authorization_code) ==
    LET found == {r \in auth_codes :
                    /\ r.code = authorization_code
                    /\ r.client_id = client}
    IN IF found = Nothing THEN Nothing
       ELSE LET row == The(found)
            IN IF row.expires_at < now THEN Nothing
               ELSE Some([code |-> row.code,
                          client_id |-> row.client_id,
                          scopes |-> ParseScopes(row.scopes),
                          code_challenge |-> row.code_challenge,
                          redirect_uri |-> row.redirect_uri,
                          redirect_uri_provided_explicitly |->
                              (row.redirect_uri_provided_explicitly # 0),
                          expires_at |-> row.expires_at])

\* load_authorization_code with "AND client_id = ?" left out of its query
LoadAuthorizationCode_AnyClient(client, authorization_code) ==
    LET found == {r \in auth_codes :
                    /\ r.code = authorization_code
                    /\ r.user_id # None}
    IN IF found = Nothing THEN Nothing
       ELSE LET row == The(found)
            IN IF row.expires_at < now THEN Nothing
               ELSE Some([code |-> row.code,
                          client_id |-> row.client_id,
                          scopes |-> ParseScopes(row.scopes),
                          code_challenge |-> row.code_challenge,
                          redirect_uri |-> row.redirect_uri,
                          redirect_uri_provided_explicitly |->
                              (row.redirect_uri_provided_explicitly # 0),
                          expires_at |-> row.expires_at])

\* GarminOAuthProvider.load_authorization_code: the AuthorizationCode or None
LoadAuthorizationCode(client, authorization_code) ==
    LET found == {r \in auth_codes :
                    /\ r.code = authorization_code
                    /\ r.client_id = client
                    /\ r.user_id # None}
    IN IF found = Nothing THEN Nothing
       ELSE LET row == The(found)
            IN IF row.expires_at < now THEN Nothing
               ELSE Some([code |-> row.code,
                          client_id |-> row.client_id,
                          scopes |-> ParseScopes(row.scopes),
                          code_challenge |-> row.code_challenge,
                          redirect_uri |-> row.redirect_uri,
                          redirect_uri_provided_explicitly |->
                              (row.redirect_uri_provided_explicitly # 0),
                          expires_at |-> row.expires_at])

\* Every value a caller can present as a code or a state: the secrets handed
\* out so far and one that never was.
Presentable == {Secret(n) : n \in 1..(nextSecret - 1)} \cup {UnknownState}

\* The same, for the calls that change nothing: a value that is the key of no
\* auth_codes row is read like UnknownState, which stands for all of them.
Readable == {r.code : r \in auth_codes} \cup {UnknownState}

\* The state values an MFA form can carry: a value that is the key of no
\* pending entry is treated like UnknownState.
MfaStates == {e.state : e \in pending_mfa} \cup {UnknownState}

\* A call of load_authorization_code whose result the caller drops.
LoadCode(client, authorization_code) ==
    /\ resp' = [op |-> "load_authorization_code", client |-> client,
                code |-> authorization_code,
                result |-> LoadAuthorizationCode(client, authorization_code)]
    /\ UNCHANGED <<locks, clock, counters, clients, tables, pending_mfa,
                   inflight, session, held, history>>

\* A call of load_authorization_code by a caller that keeps the
\* AuthorizationCode it gets, to exchange it.
HoldCode(client, authorization_code) ==
    /\ LET d == LoadAuthorizationCode(client, authorization_code)
       IN /\ d # Nothing
          /\ resp' = [op |-> "load_authorization_code", client |-> client,
                      code |-> authorization_code, result |-> d]
          /\ held_codes' = held_codes \cup d
    /\ UNCHANGED <<locks, clock, counters, clients, tables, pending_mfa,
                   inflight, session, held_refresh, history>>

\* ------------------------------------------------------- login flow
\* _get_or_create_user that never looks for the row of the e-mail address
UserIdFor_AlwaysNew(garmin_email) ==
    UserIdPool[Cardinality(users) + 1]

\* GarminOAuthProvider._get_or_create_user: the id it returns
UserIdFor(garmin_email) ==
    LET found == {u \in users : u.garmin_email = garmin_email}
    IN IF found # Nothing THEN The(found).id
       ELSE UserIdPool[Cardinality(users) + 1]

\* GarminOAuthProvider._get_or_create_user: the users table it leaves
UsersWith(garmin_email) ==
    IF \E u \in users : u.garmin_email = garmin_email THEN users
    ELSE users \cup {[id |-> UserIdFor(garmin_email),
                      garmin_email |-> garmin_email]}

\* create_session_from_garth_tokens without its garth_client.dump(token_dir)
DiskWith_NoDump(user_id, creds) == disk

\* SessionManager.create_session_from_garth_tokens: garth_client.dump(token_dir)
DiskWith(user_id, creds) ==
    {d \in disk : d.user_id # user_id} \cup {[user_id |-> user_id, creds |-> creds]}

\* create_session_from_garth_tokens without its self._cache.pop(user_id, None)
CacheWithout_Kept(user_id) == cache

\* SessionManager.create_session_from_garth_tokens: self._cache.pop(user_id, None)
CacheWithout(user_id) == {c \in cache : c.user_id # user_id}

\* The "Authorization expired" page of _complete_auth_flow
AuthorizationExpired == [status |-> 400, page |-> "Authorization expired"]

\* construct_redirect_uri(redirect_uri, code=auth_code): the state is left out
RedirectTo_NoState(redirect_uri, auth_code, client_state) ==
    [status |-> 302, page |-> "redirect", redirect_uri |-> redirect_uri,
     code |-> auth_code, state |-> None]

\* construct_redirect_uri(redirect_uri, code=auth_code, state=client_state)
RedirectTo(redirect_uri, auth_code, client_state) ==
    [status |-> 302, page |-> "redirect", redirect_uri |-> redirect_uri,
     code |-> auth_code, state |-> client_state]

\* _complete_auth_flow without its "DELETE FROM auth_codes WHERE code = ?"
CompleteAuthFlow_KeepsPlaceholder(state, user_id) ==
    LET found == {r \in auth_codes : r.code = state /\ r.user_id = None}
    IN IF found = Nothing
       THEN [auth_codes |-> auth_codes, response |-> AuthorizationExpired,
             minted |-> FALSE]
       ELSE LET row == The(found)
                auth_code == Secret(nextSecret)
            IN IF row.expires_at < now
               THEN [auth_codes |-> auth_codes,
                     response |-> AuthorizationExpired, minted |-> FALSE]
               ELSE [auth_codes |->
                        auth_codes \cup
                            {[row EXCEPT !.code = auth_code,
                                         !.user_id = user_id,
                                         !.expires_at = now + CODE_TTL]},
                     response |-> RedirectTo(row.redirect_uri, auth_code,
                                             row.client_state),
                     minted |-> TRUE]

\* _complete_auth_flow that answers "Authorization not found" when no
\* placeholder row has the state
CompleteAuthFlow_TellsNotFound(state, user_id) ==
    LET found == {r \in auth_codes : r.code = state /\ r.user_id = None}
    IN IF found = Nothing
       THEN [auth_codes |-> auth_codes,
             response |-> [status |-> 400, page |-> "Authorization not found"],
             minted |-> FALSE]
       ELSE LET row == The(found)
                auth_code == Secret(nextSecret)
            IN IF row.expires_at < now
               THEN [auth_codes |-> auth_codes,
                     response |-> AuthorizationExpired, minted |-> FALSE]
               ELSE [auth_codes |->
                        {r \in auth_codes \cup
                            {[row EXCEPT !.code = auth_code,
                                         !.user_id = user_id,
                                         !.expires_at = now + CODE_TTL]} :
                         r.code # state},
                     response |-> RedirectTo(row.redirect_uri, auth_code,
                                             row.client_state),
                     minted |-> TRUE]

\* _complete_auth_flow that mints the code without the PKCE code challenge
CompleteAuthFlow_DropsChallenge(state, user_id) ==
    LET found == {r \in auth_codes : r.code = state /\ r.user_id = None}
    IN IF found = Nothing
       THEN [auth_codes |-> auth_codes, response |-> AuthorizationExpired,
             minted |-> FALSE]
       ELSE LET row == The(found)
                auth_code == Secret(nextSecret)
            IN IF row.expires_at < now
               THEN [auth_codes |-> auth_codes,
                     response |-> AuthorizationExpired, minted |-> FALSE]
               ELSE [auth_codes |->
                        {r \in auth_codes \cup
                            {[row EXCEPT !.code = auth_code,
                                         !.user_id = user_id,
                                         !.code_challenge = None,
                                         !.expires_at = now + CODE_TTL]} :
                         r.code # state},
                     response |-> RedirectTo(row.redirect_uri, auth_code,
                                             row.client_state),
                     minted |-> TRUE]

\* _complete_auth_flow without its test of row["expires_at"]
CompleteAuthFlow_NoExpiryTest(state, user_id) ==
    LET found == {r \in auth_codes : r.code = state /\ r.user_id = None}
    IN IF found = Nothing
       THEN [auth_codes |-> auth_codes, response |-> AuthorizationExpired,
             minted |-> FALSE]
       ELSE LET row == The(found)
                auth_code == Secret(nextSecret)
            IN [auth_codes |->
                   {r \in auth_codes \cup
                       {[row EXCEPT !.code = auth_code,
                                    !.user_id = user_id,
                                    !.expires_at = now + CODE_TTL]} :
                    r.code # state},
                response |-> RedirectTo(row.redirect_uri, auth_code,
                                        row.client_state),
                minted |-> TRUE]

\* GarminOAuthProvider._complete_auth_flow: the auth_codes table it leaves and
\* the response it returns
CompleteAuthFlow(state, user_id) ==
    LET found == {r \in auth_codes : r.code = state /\ r.user_id = None}
    IN IF found = Nothing
       THEN [auth_codes |-> auth_codes, response |-> AuthorizationExpired,
             minted |-> FALSE]
       ELSE LET row == The(found)
                auth_code == Secret(nextSecret)
            IN IF row.expires_at < now
               THEN [auth_codes |-> auth_codes,
                     response |-> AuthorizationExpired, minted |-> FALSE]
               ELSE [auth_codes |->
                        {r \in auth_codes \cup
                            {[row EXCEPT !.code = auth_code,
                                         !.user_id = user_id,
                                         !.expires_at = now + CODE_TTL]} :
                         r.code # state},
                     response |-> RedirectTo(row.redirect_uri, auth_code,
                                             row.client_state),
                     minted |-> TRUE]

\* _PendingMfa.is_expired
IsExpiredMfa(pending) == now - pending.created_at > MFA_TTL

\* _cleanup_expired_mfa that empties the registry
CleanupExpiredMfa_All(registry) == {}

\* GarminOAuthProvider._cleanup_expired_mfa
CleanupExpiredMfa(registry) == {e \in registry : ~IsExpiredMfa(e)}

\* GarminOAuthProvider.get_login_page
LoginPage(state, error) ==
    [status |-> 200, page |-> "login", state |-> state, error |-> error]

\* GarminOAuthProvider.get_mfa_page, on the registry as it is when called
MfaPage(registry, state, error) ==
    LET pending == {e \in registry : e.state = state}
    IN IF pending = Nothing \/ IsExpiredMfa(The(pending))
       THEN [status |-> 400, page |-> "Session expired"]
       ELSE [status |-> 200, page |-> "mfa", state |-> state, error |-> error]

\* What a successful login does after the upstream call returned: the part
\* shared by handle_login_callback (lines 622-630) and handle_mfa_callback
\* (lines 716-723).
FinishLogin(op, state, garmin_email, creds) ==
    LET user_id == UserIdFor(garmin_email)
        done == CompleteAuthFlow(state, user_id)
    IN /\ users' = UsersWith(garmin_email)
       /\ disk' = DiskWith(user_id, creds)
       /\ cache' = CacheWithout(user_id)
       /\ auth_codes' = done.auth_codes
       /\ nextSecret' = IF done.minted THEN nextSecret + 1 ELSE nextSecret
       /\ minted_for' = IF done.minted
                        THEN minted_for \cup {[code |-> done.response.code,
                                               state |-> state,
                                               garmin_email |-> garmin_email]}
                        ELSE minted_for
       /\ resp' = [op |-> op, state |-> state, garmin_email |-> garmin_email,
                   row |-> {u \in users : u.garmin_email = garmin_email},
                   user_id |-> user_id, response |-> done.response]

\* handle_login_callback touches no shared state before garth_sso.login has
\* returned (lines 585-600), so each of its three outcomes is one step, taken
\* when the upstream call returns; any number of such requests may be
\* suspended in the call at the same time.

\* handle_login_callback, a form field is missing
LoginRejected(state, email, password) ==
    /\ state = EmptyStr \/ email = EmptyStr \/ password = EmptyStr
    /\ resp' = [op |-> "handle_login_callback", state |-> state,
                response |-> LoginPage(state, "All fields are required.")]
    /\ UNCHANGED <<locks, clock, counters, clients, tables, pending_mfa,
                   inflight, session, held, history>>

\* handle_login_callback whose except branch gives up the authorization:
\* the row of the state is deleted
LoginFailed_DropsRow(state, email) ==
    /\ state # EmptyStr /\ email # EmptyStr
    /\ auth_codes' = {r \in auth_codes : r.code # state}
    /\ resp' = [op |-> "handle_login_callback", state |-> state,
                response |-> LoginPage(state, "Invalid email or password.")]
    /\ UNCHANGED <<locks, clock, counters, clients, users, access_tokens,
                   refresh_tokens, pending_mfa, inflight, session, held,
                   history>>

\* handle_login_callback, garth_sso.login raised
LoginFailed(state, email) ==
    /\ state # EmptyStr /\ email # EmptyStr
    /\ resp' = [op |-> "handle_login_callback", state |-> state,
                response |-> LoginPage(state, "Invalid email or password.")]
    /\ UNCHANGED <<locks, clock, counters, clients, tables, pending_mfa,
                   inflight, session, held, history>>

\* handle_login_callback that looks the user up, creating the row, before it
\* asks for the verification code
LoginNeedsMfa_CreatesUser(state, email) ==
    /\ state # EmptyStr /\ email # EmptyStr
    /\ nResume < MaxResume
    /\ nResume' = nResume + 1
    /\ users' = UsersWith(email)
    /\ pending_mfa' =
           {e \in CleanupExpiredMfa(pending_mfa) : e.state # state} \cup
           {[state |-> state, client_state |-> nResume + 1,
             garmin_email |-> email, created_at |-> now]}
    /\ resp' = [op |-> "handle_login_callback", state |-> state,
                garmin_email |-> email,
                response |-> [status |-> 302, page |-> "/login/mfa?state=",
                              state |-> state]]
    /\ UNCHANGED <<locks, clock, nextSecret, nAuthorize, nIssues, nLogins, clients,
                   auth_codes, access_tokens, refresh_tokens, inflight,
                   session, held, history>>

\* handle_login_callback, garth_sso.login returned ("needs_mfa", client_state):
\* the needs_mfa branch (lines 607-619)
StorePendingMfa(state, email) ==
    /\ state # EmptyStr /\ email # EmptyStr
    /\ nResume' = nResume + 1
    /\ pending_mfa' =
           {e \in CleanupExpiredMfa(pending_mfa) : e.state # state} \cup
           {[state |-> state, client_state |-> nResume + 1,
             garmin_email |-> email, created_at |-> now]}
    /\ resp' = [op |-> "handle_login_callback", state |-> state,
                garmin_email |-> email,
                response |-> [status |-> 302, page |-> "/login/mfa?state=",
                              state |-> state]]
    /\ UNCHANGED <<locks, clock, nextSecret, nAuthorize, nIssues, nLogins, clients, tables,
                   inflight,
                   session, held, history>>

\* handle_login_callback, garth_sso.login returned ("needs_mfa", client_state)
LoginNeedsMfa(state, email) ==
    /\ nResume < MaxResume
    /\ StorePendingMfa(state, email)

\* handle_login_callback, garth_sso.login returned the two garth tokens
LoginSucceeded(state, email) ==
    /\ state # EmptyStr /\ email # EmptyStr
    /\ nLogins < MaxLogins
    /\ nLogins' = nLogins + 1
    /\ FinishLogin("handle_login_callback", state, email, nLogins + 1)
    /\ UNCHANGED <<locks, clock, nAuthorize, nIssues, nResume, clients, access_tokens,
                   refresh_tokens, pending_mfa, inflight, token_user_map, held,
                   origin, failed_mfa>>

\* handle_mfa_callback that reads the pending entry and removes it only when
\* it goes on to verify the code
MfaSubmit_NoPop(state, mfa_code) ==
    /\ IF state = EmptyStr \/ mfa_code = EmptyStr
       THEN /\ resp' = [op |-> "handle_mfa_callback", state |-> state,
                        mfa_code |-> mfa_code,
                        response |-> MfaPage(pending_mfa, state,
                                             "Verification code is required.")]
            /\ UNCHANGED <<pending_mfa, inflight>>
       ELSE LET pending == {e \in pending_mfa : e.state = state}
            IN IF pending = Nothing \/ IsExpiredMfa(The(pending))
               THEN /\ resp' = [op |-> "handle_mfa_callback", state |-> state,
                                mfa_code |-> mfa_code,
                                response |-> [status |-> 400,
                                              page |-> "Session expired"]]
                    /\ UNCHANGED <<pending_mfa, inflight>>
               ELSE /\ pending_mfa' = pending_mfa \ pending
                    /\ inflight' = inflight \cup
                           {[state |-> state, pending |-> The(pending)]}
                    /\ resp' = [op |-> "await garth_sso.resume_login",
                                state |-> state, mfa_code |-> mfa_code]
    /\ UNCHANGED <<locks, clock, counters, clients, tables, session, held,
                   history>>

\* handle_mfa_callback up to its await of garth_sso.resume_login
MfaSubmit(state, mfa_code) ==
    /\ IF state = EmptyStr \/ mfa_code = EmptyStr
       THEN /\ resp' = [op |-> "handle_mfa_callback", state |-> state,
                        mfa_code |-> mfa_code,
                        response |-> MfaPage(pending_mfa, state,
                                             "Verification code is required.")]
            /\ UNCHANGED <<pending_mfa, inflight>>
       ELSE LET pending == {e \in pending_mfa : e.state = state}
            IN /\ pending_mfa' = pending_mfa \ pending
               /\ IF pending = Nothing \/ IsExpiredMfa(The(pending))
                  THEN /\ resp' = [op |-> "handle_mfa_callback", state |-> state,
                                   mfa_code |-> mfa_code,
                                   response |-> [status |-> 400,
                                                 page |-> "Session expired"]]
                       /\ UNCHANGED inflight
                  ELSE /\ inflight' = inflight \cup
                              {[state |-> state, pending |-> The(pending)]}
                       /\ resp' = [op |-> "await garth_sso.resume_login",
                                   state |-> state, mfa_code |-> mfa_code]
    /\ UNCHANGED <<locks, clock, counters, clients, tables, session, held,
                   history>>

\* handle_mfa_callback whose except branch does not put the popped entry back
MfaFailed_NoRestore(req) ==
    /\ req \in inflight
    /\ inflight' = inflight \ {req}
    /\ pending_mfa' = pending_mfa
    /\ resp' = [op |-> "handle_mfa_callback", state |-> req.state,
                response |-> MfaPage(pending_mfa', req.state,
                                     "Invalid verification code. Please try again.")]
    /\ failed_mfa' = failed_mfa \cup {req.pending}
    /\ UNCHANGED <<locks, clock, counters, clients, tables, session, held,
                   minted_for, origin>>

\* handle_mfa_callback whose except branch stores a new _PendingMfa, stamped
\* with the time of the restore
MfaFailed_Restamped(req) ==
    /\ req \in inflight
    /\ inflight' = inflight \ {req}
    /\ pending_mfa' = {e \in pending_mfa : e.state # req.state} \cup
                      {[req.pending EXCEPT !.created_at = now]}
    /\ resp' = [op |-> "handle_mfa_callback", state |-> req.state,
                response |-> MfaPage(pending_mfa', req.state,
                                     "Invalid verification code. Please try again.")]
    /\ failed_mfa' = failed_mfa \cup {req.pending}
    /\ UNCHANGED <<locks, clock, counters, clients, tables, session, held,
                   minted_for, origin>>

\* handle_mfa_callback, garth_sso.resume_login raised
MfaFailed(req) ==
    /\ req \in inflight
    /\ inflight' = inflight \ {req}
    /\ pending_mfa' = {e \in pending_mfa : e.state # req.state} \cup {req.pending}
    /\ resp' = [op |-> "handle_mfa_callback", state |-> req.state,
                response |-> MfaPage(pending_mfa', req.state,
                                     "Invalid verification code. Please try again.")]
    /\ failed_mfa' = failed_mfa \cup {req.pending}
    /\ UNCHANGED <<locks, clock, counters, clients, tables, session, held,
                   minted_for, origin>>

\* handle_mfa_callback, garth_sso.resume_login returned the two garth tokens
MfaSucceeded(req) ==
    /\ req \in inflight
    /\ nLogins < MaxLogins
    /\ inflight' = inflight \ {req}
    /\ nLogins' = nLogins + 1
    /\ FinishLogin("handle_mfa_callback", req.state, req.pending.garmin_email,
                   nLogins + 1)
    /\ UNCHANGED <<locks, clock, nAuthorize, nIssues, nResume, clients, access_tokens,
                   refresh_tokens, pending_mfa, token_user_map, held, origin,
                   failed_mfa>>

\* ------------------------------------------------------------ tokens
\* SessionManager.set_token_user_mapping, under the caller's guard
\* "if user_id and self.session_manager"
MapWith(token, user_id) ==
    IF user_id = None \/ user_id = EmptyStr THEN token_user_map
    ELSE {m \in token_user_map : m.token # token} \cup
         {[token |-> token, user_id |-> user_id]}

\* SessionManager.get_user_id_for_token
GetUserIdForToken(token) ==
    LET found == {m \in token_user_map : m.token = token}
    IN IF found = Nothing THEN None ELSE The(found).user_id

\* The two rows exchange_authorization_code and exchange_refresh_token insert
TokenRow(token, client, user_id, scopes_str, ttl) ==
    [token |-> token, client_id |-> client, user_id |-> user_id,
     scopes |-> scopes_str, expires_at |-> now + ttl]

\* The OAuthToken both exchanges return
OAuthToken(access, refresh, scopes) ==
    [access_token |-> access, token_type |-> "Bearer", expires_in |-> 3600,
     refresh_token |-> refresh, scope |-> Join(" ", scopes)]

\* The user id lookup of exchange_authorization_code without its WHERE clause:
\* fetchone() returns some row of the table
CodeUserId_AnyRow(code) ==
    IF auth_codes = {} THEN None ELSE (CHOOSE r \in auth_codes : TRUE).user_id

\* exchange_authorization_code: SELECT user_id FROM auth_codes WHERE code = ?
\* and "user_id = row["user_id"] if row else None"
CodeUserId(code) ==
    LET found == {r \in auth_codes : r.code = code}
    IN IF found = Nothing THEN None ELSE The(found).user_id

\* The scopes column written with the separator of the token response
ScopesColumn_Space(scopes) == Join(" ", scopes)

\* The scopes column both exchanges write: ",".join(scopes)
ScopesColumn(scopes) == Join(",", scopes)

\* The code a token goes back to, if it goes back to one.
OriginOf(token) == {o.code : o \in {x \in origin : x.token = token}}

\* GarminOAuthProvider.exchange_authorization_code
ExchangeAuthorizationCode(client, authorization_code) ==
    /\ nIssues < MaxIssues
    /\ LET found == {r \in auth_codes : r.code = authorization_code.code}
           user_id == CodeUserId(authorization_code.code)
           access_token_str == Secret(nextSecret)
           refresh_token_str == Secret(nextSecret + 1)
           scopes_str == ScopesColumn(authorization_code.scopes)
       IN /\ auth_codes' = auth_codes \ found
          /\ origin' = origin \cup
                 {[token |-> t, code |-> authorization_code.code, via |-> "code"] :
                    t \in {access_token_str, refresh_token_str}}
          /\ access_tokens' = access_tokens \cup
                 {TokenRow(access_token_str, client, user_id, scopes_str, ACCESS_TTL)}
          /\ refresh_tokens' = refresh_tokens \cup
                 {TokenRow(refresh_token_str, client, user_id, scopes_str, REFRESH_TTL)}
          /\ token_user_map' = MapWith(access_token_str, user_id)
          /\ resp' = [op |-> "exchange_authorization_code", client |-> client,
                      code |-> authorization_code,
                      result |-> OAuthToken(access_token_str, refresh_token_str,
                                            authorization_code.scopes)]
    /\ nextSecret' = nextSecret + 2
    /\ nIssues' = nIssues + 1
    /\ UNCHANGED <<locks, clock, nAuthorize, nLogins, nResume, clients, users,
                   pending_mfa, inflight, cache, disk, held, minted_for,
                   failed_mfa>>

\* GarminOAuthProvider.load_access_token: the AccessToken or None
LoadAccessTokenResult(token) ==
    LET found == {r \in access_tokens : r.token = token}
    IN IF found = Nothing THEN Nothing
       ELSE LET row == The(found)
            IN IF row.expires_at < now THEN Nothing
               ELSE Some([token |-> row.token,
                          client_id |-> row.client_id,
                          scopes |-> ParseScopes(row.scopes),
                          expires_at |-> row.expires_at])

\* load_access_token without its set_token_user_mapping call
LoadAccessToken_NoReassert(token) ==
    /\ token_user_map' = token_user_map
    /\ resp' = [op |-> "load_access_token", token |-> token,
                result |-> LoadAccessTokenResult(token)]
    /\ UNCHANGED <<locks, clock, counters, clients, tables, pending_mfa,
                   inflight, cache, disk, held, history>>

\* GarminOAuthProvider.load_access_token
LoadAccessToken(token) ==
    /\ LET found == {r \in access_tokens : r.token = token}
           loaded == LoadAccessTokenResult(token)
       IN /\ token_user_map' = IF loaded = Nothing THEN token_user_map
                               ELSE MapWith(token, The(found).user_id)
          /\ resp' = [op |-> "load_access_token", token |-> token,
                      result |-> loaded]
    /\ UNCHANGED <<locks, clock, counters, clients, tables, pending_mfa,
                   inflight, cache, disk, held, history>>

\* GarminOAuthProvider.load_refresh_token: the RefreshToken or None
LoadRefreshTokenResult(client, refresh_token) ==
    LET found == {r \in refresh_tokens :
                    r.token = refresh_token /\ r.client_id = client}
    IN IF found = Nothing THEN Nothing
       ELSE LET row == The(found)
            IN IF row.expires_at < now THEN Nothing
               ELSE Some([token |-> row.token,
                          client_id |-> row.client_id,
                          scopes |-> ParseScopes(row.scopes),
                          expires_at |-> row.expires_at])

\* A call of load_refresh_token by the token endpoint.
LoadRefreshToken(client, refresh_token) ==
    /\ LET loaded == LoadRefreshTokenResult(client, refresh_token)
       IN /\ resp' = [op |-> "load_refresh_token", client |-> client,
                      token |-> refresh_token, result |-> loaded]
          /\ held_refresh' = held_refresh \cup loaded
    /\ UNCHANGED <<locks, clock, counters, clients, tables, pending_mfa,
                   inflight, session, held_codes, history>>

\* exchange_refresh_token with "use_scopes = scopes": the fallback to the old
\* token's scopes is missing
ExchangeRefreshToken_NoCarry(client, refresh_token, scopes) ==
    /\ nIssues < MaxIssues
    /\ LET found == {r \in refresh_tokens : r.token = refresh_token.token}
           user_id == IF found = Nothing THEN None ELSE The(found).user_id
           new_access == Secret(nextSecret)
           new_refresh == Secret(nextSecret + 1)
           use_scopes == scopes
           scopes_str == ScopesColumn(use_scopes)
       IN /\ origin' = origin \cup
                 {[token |-> t, code |-> k, via |-> "refresh"] :
                    t \in {new_access, new_refresh},
                    k \in OriginOf(refresh_token.token)}
          /\ access_tokens' = access_tokens \cup
                 {TokenRow(new_access, client, user_id, scopes_str, ACCESS_TTL)}
          /\ refresh_tokens' = (refresh_tokens \ found) \cup
                 {TokenRow(new_refresh, client, user_id, scopes_str, REFRESH_TTL)}
          /\ token_user_map' = MapWith(new_access, user_id)
          /\ resp' = [op |-> "exchange_refresh_token", client |-> client,
                      token |-> refresh_token, scopes |-> scopes,
                      result |-> OAuthToken(new_access, new_refresh, use_scopes)]
    /\ nextSecret' = nextSecret + 2
    /\ nIssues' = nIssues + 1
    /\ UNCHANGED <<locks, clock, nAuthorize, nLogins, nResume, clients, users,
                   auth_codes, pending_mfa, inflight, cache, disk, held,
                   minted_for, failed_mfa>>

\* GarminOAuthProvider.exchange_refresh_token
ExchangeRefreshToken(client, refresh_token, scopes) ==
    /\ nIssues < MaxIssues
    /\ LET found == {r \in refresh_tokens : r.token = refresh_token.token}
           user_id == IF found = Nothing THEN None ELSE The(found).user_id
           new_access == Secret(nextSecret)
           new_refresh == Secret(nextSecret + 1)
           use_scopes == IF scopes # <<>> THEN scopes ELSE refresh_token.scopes
           scopes_str == ScopesColumn(use_scopes)
       IN /\ origin' = origin \cup
                 {[token |-> t, code |-> k, via |-> "refresh"] :
                    t \in {new_access, new_refresh},
                    k \in OriginOf(refresh_token.token)}
          /\ access_tokens' = access_tokens \cup
                 {TokenRow(new_access, client, user_id, scopes_str, ACCESS_TTL)}
          /\ refresh_tokens' = (refresh_tokens \ found) \cup
                 {TokenRow(new_refresh, client, user_id, scopes_str, REFRESH_TTL)}
          /\ token_user_map' = MapWith(new_access, user_id)
          /\ resp' = [op |-> "exchange_refresh_token", client |-> client,
                      token |-> refresh_token, scopes |-> scopes,
                      result |-> OAuthToken(new_access, new_refresh, use_scopes)]
    /\ nextSecret' = nextSecret + 2
    /\ nIssues' = nIssues + 1
    /\ UNCHANGED <<locks, clock, nAuthorize, nLogins, nResume, clients, users,
                   auth_codes, pending_mfa, inflight, cache, disk, held,
                   minted_for, failed_mfa>>

\* The login forms with a missing field.
BlankForms ==
    {<<EmptyStr, "a@x", "pw">>, <<UnknownState, EmptyStr, "pw">>,
     <<UnknownState, "a@x", EmptyStr>>}

\* The authorization and login subsystem: authorize, the two login pages and
\* load_authorization_code.
Next ==
    \/ Tick
    \/ Authorize(AuthRequest(nAuthorize + 1).client,
                 AuthRequest(nAuthorize + 1).params)
    \/ \E c \in ClientIds, k \in Readable : LoadCode(c, k)
    \/ \E f \in BlankForms : LoginRejected(f[1], f[2], f[3])
    \/ \E st \in Readable : LoginFailed(st, "a@x")
    \/ \E st \in Presentable, e \in Emails : LoginNeedsMfa(st, e)
    \/ \E st \in Presentable, e \in Emails : LoginSucceeded(st, e)
    \/ \E st \in MfaStates \cup {EmptyStr}, k \in {"123456", EmptyStr} :
          MfaSubmit(st, k)
    \/ \E req \in inflight : MfaFailed(req)
    \/ \E req \in inflight : MfaSucceeded(req)

Spec == Init /\ [][Next]_vars

\* ----------------------------------------------------------- clients
\* The ids clients register under, and the OAuthClientInformationFull objects
\* they register.
RegClientIds == {"c1", "c2", "c3"}
ClientInfos ==
    [client_id : RegClientIds, client_name : {"app", "app v2"},
     redirect_uris : {<<"https://cb">>}]

\* client_info.model_dump_json() and OAuthClientInformationFull.model_validate_json
ModelDumpJson(client_info) == <<"json", client_info>>
ModelValidateJson(json) == json[2]

\* INSERT OR IGNORE INTO oauth_clients: an existing row wins
InsertOrReplace_Ignore(row) ==
    [rows |-> IF \E r \in oauth_clients : r.client_id = row.client_id
              THEN oauth_clients ELSE oauth_clients \cup {row},
     raised |-> FALSE]

\* INSERT OR REPLACE INTO oauth_clients: the table it leaves, and whether the
\* statement raises
InsertOrReplace(row) ==
    [rows |-> {r \in oauth_clients : r.client_id # row.client_id} \cup {row},
     raised |-> FALSE]

\* GarminOAuthProvider.get_client: the OAuthClientInformationFull or None
GetClientResult(client_id) ==
    LET found == {r \in oauth_clients : r.client_id = client_id}
    IN IF found # Nothing
       THEN Some(ModelValidateJson(The(found).client_info_json))
       ELSE Nothing

\* GarminOAuthProvider.register_client
RegisterClient(client_info) ==
    /\ LET done == InsertOrReplace([client_id |-> client_info.client_id,
                                    client_info_json |-> ModelDumpJson(client_info)])
       IN /\ oauth_clients' = done.rows
          /\ registered' = IF done.raised THEN registered
                           ELSE {g \in registered :
                                    g.client_id # client_info.client_id}
                                \cup {client_info}
          /\ resp' = [op |-> "register_client", client_info |-> client_info,
                      replaced |-> GetClientResult(client_info.client_id),
                      raised |-> done.raised]
    /\ UNCHANGED <<locks, clock, counters, tables, pending_mfa, inflight, session,
                   held, history>>

\* GarminOAuthProvider.get_client
GetClient(client_id) ==
    /\ resp' = [op |-> "get_client", client_id |-> client_id,
                result |-> GetClientResult(client_id)]
    /\ UNCHANGED <<locks, clock, counters, clients, tables, pending_mfa, inflight,
                   session, held, history>>

\* Client registration alone: no other call reads or writes oauth_clients.
ClientNext ==
    \/ \E ci \in ClientInfos : RegisterClient(ci)
    \/ \E id \in RegClientIds : GetClient(id)

ClientSpec == Init /\ [][ClientNext]_vars

\* ----------------------------------------------------- session manager
\* The user ids the session manager is called with.
UserIds == {UserIdPool[i] : i \in 1..Len(UserIdPool)}

\* _CachedClient.is_expired with one more TTL of grace
IsExpiredCache_TwiceTtl(cached) == now > cached.expires_at + CACHE_TTL

\* _CachedClient.is_expired
IsExpiredCache(cached) == now > cached.expires_at

\* os.path.isdir(token_dir): the credentials stored for the user, if any
OnDisk(user_id) == {d \in disk : d.user_id = user_id}

\* SessionManager.get_client without the "not cached.is_expired" test
SessionGetClient_NoExpiry(user_id, restore_ok) ==
    LET cached == {c \in cache : c.user_id = user_id}
    IN IF cached # Nothing
       THEN [result |-> Some(The(cached).client), cache |-> cache]
       ELSE IF OnDisk(user_id) = Nothing
       THEN [result |-> Nothing, cache |-> cache]
       ELSE IF restore_ok
       THEN LET garmin == [creds |-> The(OnDisk(user_id)).creds]
            IN [result |-> Some(garmin),
                cache |-> (cache \ cached) \cup
                          {[user_id |-> user_id, client |-> garmin,
                            expires_at |-> now + CACHE_TTL]}]
       ELSE [result |-> Nothing, cache |-> cache]

\* SessionManager.get_client: the Garmin client or None, and the cache it
\* leaves; restore_ok says whether garmin.login(token_dir) returns (TRUE) or
\* raises (FALSE)
SessionGetClient(user_id, restore_ok) ==
    LET cached == {c \in cache : c.user_id = user_id}
    IN IF cached # Nothing /\ ~IsExpiredCache(The(cached))
       THEN [result |-> Some(The(cached).client), cache |-> cache]
       ELSE IF OnDisk(user_id) = Nothing
       THEN [result |-> Nothing, cache |-> cache]
       ELSE IF restore_ok
       THEN LET garmin == [creds |-> The(OnDisk(user_id)).creds]
            IN [result |-> Some(garmin),
                cache |-> (cache \ cached) \cup
                          {[user_id |-> user_id, client |-> garmin,
                            expires_at |-> now + CACHE_TTL]}]
       ELSE [result |-> Nothing, cache |-> cache]

\* A call of SessionManager.get_client
SmGetClient(user_id, restore_ok) ==
    /\ LET got == SessionGetClient(user_id, restore_ok)
       IN /\ cache' = got.cache
          /\ resp' = [op |-> "session_manager.get_client", user_id |-> user_id,
                      restore_ok |-> restore_ok, result |-> got.result,
                      cached |-> {c \in cache : c.user_id = user_id},
                      follows |-> IF resp.op = "create_session_from_garth_tokens"
                                     /\ resp.user_id = user_id
                                  THEN Some(resp) ELSE Nothing]
    /\ UNCHANGED <<locks, clock, counters, clients, tables, pending_mfa, inflight,
                   token_user_map, disk, held, history>>

\* A call of SessionManager.create_session_from_garth_tokens with the tokens
\* of a fresh upstream login
SmCreateSessionFromGarthTokens(user_id) ==
    /\ nLogins < MaxLogins
    /\ nLogins' = nLogins + 1
    /\ disk' = DiskWith(user_id, nLogins + 1)
    /\ cache' = CacheWithout(user_id)
    /\ resp' = [op |-> "create_session_from_garth_tokens", user_id |-> user_id,
                creds |-> nLogins + 1,
                evicted |-> {c \in cache : c.user_id = user_id
                                           /\ ~IsExpiredCache(c)}]
    /\ UNCHANGED <<locks, clock, nextSecret, nAuthorize, nIssues, nResume, clients,
                   tables, pending_mfa, inflight, token_user_map, held,
                   history>>

\* remove_session without its shutil.rmtree(token_dir)
DiskWithout_Kept(user_id) == disk

\* SessionManager.remove_session: shutil.rmtree(token_dir)
DiskWithout(user_id) == {d \in disk : d.user_id # user_id}

\* SessionManager.remove_session: the value of "removed" it returns
RemoveSessionResult(user_id) ==
    \/ \E c \in cache : c.user_id = user_id
    \/ OnDisk(user_id) # Nothing

\* A call of SessionManager.remove_session
SmRemoveSession(user_id) ==
    /\ cache' = {c \in cache : c.user_id # user_id}
    /\ disk' = DiskWithout(user_id)
    /\ resp' = [op |-> "remove_session", user_id |-> user_id,
                result |-> RemoveSessionResult(user_id)]
    /\ UNCHANGED <<locks, clock, counters, clients, tables, pending_mfa, inflight,
                   token_user_map, held, history>>

\* A call of SessionManager.has_session
SmHasSession(user_id) ==
    /\ resp' = [op |-> "has_session", user_id |-> user_id,
                result |-> OnDisk(user_id) # Nothing]
    /\ UNCHANGED <<locks, clock, counters, clients, tables, pending_mfa, inflight,
                   session, held, history>>

\* The session manager alone, called with any user id.
SessionNext ==
    \/ Tick
    \/ \E u \in UserIds : SmCreateSessionFromGarthTokens(u)
    \/ \E u \in UserIds, ok \in BOOLEAN : SmGetClient(u, ok)
    \/ \E u \in UserIds : SmRemoveSession(u)
    \/ \E u \in UserIds : SmHasSession(u)

SessionSpec == Init /\ [][SessionNext]_vars

\* ------------------------------------------------------- client resolver

\* The two RuntimeError messages of client_resolver.get_client
ReAuthenticate == "Garmin session expired or not available. Please re-authenticate."

NotAvailable == "Garmin client not available. Please authenticate first."

\* Bearer tokens a request may carry
BearerTokens == {Secret(1), Secret(2)}

\* The client set_global_client stored, when a process stored one
GlobalClient == [creds |-> 0]

\* client_resolver.get_client(ctx) with a session manager configured:
\* access_token is what get_access_token() returns, global_client the
\* module's _global_client; the client returned or the error raised, and the
\* cache SessionManager.get_client leaves
ResolverGetClient(access_token, restore_ok, global_client) ==
    LET user_id == IF access_token = Nothing THEN None
                   ELSE GetUserIdForToken(The(access_token))
        fallback == IF global_client # Nothing
                    THEN [result |-> global_client, error |-> None,
                          cache |-> cache]
                    ELSE [result |-> Nothing, error |-> NotAvailable,
                          cache |-> cache]
    IN IF access_token # Nothing /\ user_id # None /\ user_id # EmptyStr
       THEN LET got == SessionGetClient(user_id, restore_ok)
            IN IF got.result # Nothing
               THEN [result |-> got.result, error |-> None, cache |-> got.cache]
               ELSE [result |-> Nothing, error |-> ReAuthenticate,
                     cache |-> got.cache]
       ELSE fallback

\* A tool call resolving its Garmin client
ResolveClient(access_token, restore_ok, global_client) ==
    /\ LET got == ResolverGetClient(access_token, restore_ok, global_client)
       IN /\ cache' = got.cache
          /\ resp' = [op |-> "resolver.get_client", token |-> access_token,
                      user_id |-> IF access_token = Nothing THEN None
                                  ELSE GetUserIdForToken(The(access_token)),
                      session |-> IF access_token = Nothing THEN Nothing
                                  ELSE LET u == GetUserIdForToken(The(access_token))
                                       IN IF u = None THEN Nothing
                                          ELSE SessionGetClient(u, restore_ok).result,
                      global_client |-> global_client,
                      result |-> got.result, error |-> got.error]
    /\ UNCHANGED <<locks, clock, counters, clients, tables, pending_mfa, inflight,
                   token_user_map, disk, held, history>>

\* SessionManager.set_token_user_mapping, as load_access_token calls it
SmSetTokenUserMapping(token, user_id) ==
    /\ token_user_map' = MapWith(token, user_id)
    /\ resp' = [op |-> "set_token_user_mapping", token |-> token,
                user_id |-> user_id]
    /\ UNCHANGED <<locks, clock, counters, clients, tables, pending_mfa, inflight,
                   cache, disk, held, history>>

\* Tool calls over the session manager
ResolverNext ==
    \/ Tick
    \/ \E u \in UserIds : SmCreateSessionFromGarthTokens(u)
    \/ \E u \in UserIds : SmRemoveSession(u)
    \/ \E t \in BearerTokens, u \in UserIds : SmSetTokenUserMapping(t, u)
    \/ \E a \in {Nothing} \cup {Some(t) : t \in BearerTokens}, ok \in BOOLEAN,
          g \in {Nothing, Some(GlobalClient)} : ResolveClient(a, ok, g)

ResolverSpec == Init /\ [][ResolverNext]_vars

\* The auth_codes row of the n-th authorize request: the placeholder authorize
\* inserts (user_id None, expiry STATE_TTL) and the row _complete_auth_flow
\* replaces it by (the user's id, expiry CODE_TTL), both at time 0.
FlowRow(n, code, user_id, expires_at) ==
    [code |-> code,
     client_id |-> AuthRequest(n).client,
     user_id |-> user_id,
     scopes |-> Join(",", OrEmpty(AuthRequest(n).params.scopes)),
     code_challenge |-> AuthRequest(n).params.code_challenge,
     redirect_uri |-> AuthRequest(n).params.redirect_uri,
     redirect_uri_provided_explicitly |->
         IF AuthRequest(n).params.redirect_uri_provided_explicitly THEN 1 ELSE 0,
     client_state |-> AuthRequest(n).params.state,
     expires_at |-> expires_at]

\* The token subsystem starts where one login has completed and a second
\* authorization is waiting for its login: the state Spec reaches by
\* Authorize, Authorize, LoginSucceeded("s1", "a@x").
LoggedIn ==
    /\ now = 0
    /\ ticks = 0
    /\ nextSecret = 4
    /\ nAuthorize = 2
    /\ nIssues = 0
    /\ nLogins = 1
    /\ nResume = 0
    /\ oauth_clients = {}
    /\ users = {[id |-> "u1", garmin_email |-> "a@x"]}
    /\ auth_codes = {FlowRow(1, "s3", "u1", CODE_TTL),
                     FlowRow(2, "s2", None, STATE_TTL)}
    /\ access_tokens = {}
    /\ refresh_tokens = {}
    /\ pending_mfa = {}
    /\ inflight = {}
    /\ token_user_map = {}
    /\ cache = {}
    /\ disk = {[user_id |-> "u1", creds |-> 1]}
    /\ held_codes = {}
    /\ held_refresh = {}
    /\ minted_for = {[code |-> "s3", state |-> "s1", garmin_email |-> "a@x"]}
    /\ registered = {}
    /\ origin = {}
    /\ failed_mfa = {}
    /\ mfa_lock = Nothing
    /\ cache_lock = Nothing
    /\ threads = NoRequests

TokenInit == LoggedIn /\ resp = [op |-> "init"]

\* The token subsystem: the token endpoint's calls on the provider, and the
\* login that completes the waiting authorization.
TokenNext ==
    \/ Tick
    \/ \E st \in Readable, e \in Emails : LoginSucceeded(st, e)
    \/ \E c \in ClientIds, k \in Readable : HoldCode(c, k)
    \/ \E d \in held_codes : ExchangeAuthorizationCode(d.client_id, d)
    \/ \E r \in access_tokens : LoadAccessToken(r.token)
    \/ \E c \in ClientIds, r \in refresh_tokens : LoadRefreshToken(c, r.token)
    \/ \E d \in held_refresh, sc \in {<<>>, <<ScopeW>>, <<ScopeRW>>} :
          ExchangeRefreshToken(d.client_id, d, sc)

TokenSpec == TokenInit /\ [][TokenNext]_vars

\* ------------------------------------------------ restart and revocation
\* A restart of the server process: the tables and the token directories
\* stay, the dictionaries of the new GarminOAuthProvider and SessionManager
\* objects are empty, and the requests that were suspended are gone.
Restart ==
    /\ token_user_map' = {}
    /\ cache' = {}
    /\ pending_mfa' = {}
    /\ inflight' = {}
    /\ resp' = [op |-> "restart"]
    /\ UNCHANGED <<locks, clock, counters, clients, tables, disk, held, history>>

\* revoke_token on an access token only: the refresh_tokens DELETE is missing
RevokeToken_AccessOnly(token) ==
    /\ access_tokens' = {r \in access_tokens : r.token # token.token}
    /\ refresh_tokens' = refresh_tokens
    /\ resp' = [op |-> "revoke_token", token |-> token.token]
    /\ UNCHANGED <<locks, clock, counters, clients, users, auth_codes, pending_mfa,
                   inflight, session, held, history>>

\* GarminOAuthProvider.revoke_token
RevokeToken(token) ==
    /\ access_tokens' = {r \in access_tokens : r.token # token.token}
    /\ refresh_tokens' = {r \in refresh_tokens : r.token # token.token}
    /\ resp' = [op |-> "revoke_token", token |-> token.token]
    /\ UNCHANGED <<locks, clock, counters, clients, users, auth_codes, pending_mfa,
                   inflight, session, held, history>>

\* The values a caller can present as a token: those of the rows of both
\* tables and one that is in neither.
TokenValues ==
    {r.token : r \in access_tokens} \cup {r.token : r \in refresh_tokens}
        \cup {UnknownState}

\* The descriptor load_authorization_code returns for the code of the first
\* authorize request.
FirstCode ==
    [code |-> "s3", client_id |-> AuthRequest(1).client,
     scopes |-> ParseScopes(Join(",", OrEmpty(AuthRequest(1).params.scopes))),
     code_challenge |-> AuthRequest(1).params.code_challenge,
     redirect_uri |-> AuthRequest(1).params.redirect_uri,
     redirect_uri_provided_explicitly |->
         AuthRequest(1).params.redirect_uri_provided_explicitly,
     expires_at |-> CODE_TTL]

\* Revocation and restarts start where the first code has been exchanged:
\* the state TokenSpec reaches by HoldCode("c1", "s3") and
\* ExchangeAuthorizationCode("c1", FirstCode).
Issued ==
    /\ now = 0
    /\ ticks = 0
    /\ nextSecret = 6
    /\ nAuthorize = 2
    /\ nIssues = 1
    /\ nLogins = 1
    /\ nResume = 0
    /\ oauth_clients = {}
    /\ users = {[id |-> "u1", garmin_email |-> "a@x"]}
    /\ auth_codes = {FlowRow(2, "s2", None, STATE_TTL)}
    /\ access_tokens =
           {TokenRow("s4", "c1", "u1", ScopesColumn(FirstCode.scopes), ACCESS_TTL)}
    /\ refresh_tokens =
           {TokenRow("s5", "c1", "u1", ScopesColumn(FirstCode.scopes), REFRESH_TTL)}
    /\ pending_mfa = {}
    /\ inflight = {}
    /\ token_user_map = {[token |-> "s4", user_id |-> "u1"]}
    /\ cache = {}
    /\ disk = {[user_id |-> "u1", creds |-> 1]}
    /\ held_codes = {FirstCode}
    /\ held_refresh = {}
    /\ minted_for = {[code |-> "s3", state |-> "s1", garmin_email |-> "a@x"]}
    /\ registered = {}
    /\ origin = {[token |-> t, code |-> "s3", via |-> "code"] : t \in {"s4", "s5"}}
    /\ failed_mfa = {}
    /\ mfa_lock = Nothing
    /\ cache_lock = Nothing
    /\ threads = NoRequests

RevokeInit == Issued /\ resp = [op |-> "init"]

\* Token loads, refreshes and revocations, with restarts in between.
RevokeNext ==
    \/ Tick
    \/ Restart
    \/ \E v \in TokenValues : RevokeToken([token |-> v])
    \/ \E v \in TokenValues : LoadAccessToken(v)
    \/ \E c \in ClientIds, v \in TokenValues : LoadRefreshToken(c, v)
    \/ \E d \in held_refresh : ExchangeRefreshToken(d.client_id, d, <<>>)

RevokeSpec == RevokeInit /\ [][RevokeNext]_vars

\* ------------------------------------------------- from login to tokens
\* One authorization from authorize to the token pair: the calls that change
\* the tables, without the calls that only read.
FlowNext ==
    \/ Tick
    \/ Authorize(AuthRequest(nAuthorize + 1).client,
                 AuthRequest(nAuthorize + 1).params)
    \/ \E st \in Readable, e \in Emails : LoginNeedsMfa(st, e)
    \/ \E st \in Readable, e \in Emails : LoginSucceeded(st, e)
    \/ \E st \in MfaStates : MfaSubmit(st, "123456")
    \/ \E req \in inflight : MfaSucceeded(req)
    \/ \E c \in ClientIds, k \in Readable : HoldCode(c, k)
    \/ \E d \in held_codes : ExchangeAuthorizationCode(d.client_id, d)

FlowSpec == Init /\ [][FlowNext]_vars

\* ----------------------------------------------- the verification step
\* The state values an MFA form can carry while verifications are in flight:
\* the keys of the pending entries, the keys of the entries popped by requests
\* that are suspended in garth_sso.resume_login, a forged value and a blank.
MfaFormStates ==
    {e.state : e \in pending_mfa} \cup {r.state : r \in inflight} \cup
    {UnknownState, EmptyStr}

\* The MFA branch of the login, with forms submitted while an earlier
\* submission for the same state is still being verified.
MfaNext ==
    \/ Tick
    \/ Authorize(AuthRequest(nAuthorize + 1).client,
                 AuthRequest(nAuthorize + 1).params)
    \/ \E st \in Readable : LoginFailed(st, "a@x")
    \/ \E st \in Readable, e \in Emails : LoginNeedsMfa(st, e)
    \/ \E st \in MfaFormStates, k \in {"123456", EmptyStr} : MfaSubmit(st, k)
    \/ \E req \in inflight : MfaFailed(req)
    \/ \E req \in inflight : MfaSucceeded(req)

MfaSpec == Init /\ [][MfaNext]_vars

\* ------------------------------------------- credentials submitted again
\* The login form submitted again while an earlier login of the same or of
\* another state waits for its verification code or is being verified: the
\* upstream asks for a code up to MaxPending times.
RetryNext ==
    \/ Tick
    \/ Authorize(AuthRequest(nAuthorize + 1).client,
                 AuthRequest(nAuthorize + 1).params)
    \/ \E st \in Readable :
          nResume < MaxPending /\ StorePendingMfa(st, "a@x")
    \/ \E st \in Readable : LoginSucceeded(st, "a@x")
    \/ \E st \in MfaFormStates : MfaSubmit(st, "123456")
    \/ \E req \in inflight : MfaFailed(req)
    \/ \E req \in inflight : MfaSucceeded(req)

RetrySpec == Init /\ [][RetryNext]_vars

\* ------------------------------------------------- the two mutexes
\* The handlers that take a mutex, followed from statement to statement: a
\* request is at "idle" or at the statement it has reached, and a with block
\* is entered in one step and left in a later one. garth_sso.login and
\* garth_sso.resume_login run in the executor; Garmin.login(token_dir) runs in
\* the thread that called SessionManager.get_client.
At(r) == threads[r].at

Goto(r, frame) == threads' = [threads EXCEPT ![r] = frame]

\* Between two returns a request is only known to be running.
Running(r) == [op |-> "running", request |-> r]

\* handle_login_callback up to its await of garth_sso.login
LkLoginSubmit(r, state, email) ==
    /\ At(r) = "idle"
    /\ state # EmptyStr /\ email # EmptyStr
    /\ Goto(r, [at |-> "await garth_sso.login", state |-> state,
                email |-> email])
    /\ resp' = Running(r)
    /\ UNCHANGED <<clock, counters, clients, tables, pending_mfa, inflight,
                   session, held, history, mfa_lock, cache_lock>>

\* handle_login_callback, garth_sso.login raised
LkLoginRaised(r) ==
    /\ At(r) = "await garth_sso.login"
    /\ Goto(r, Idle)
    /\ resp' = [op |-> "handle_login_callback", state |-> threads[r].state,
                response |-> LoginPage(threads[r].state,
                                       "Invalid email or password.")]
    /\ UNCHANGED <<clock, counters, clients, tables, pending_mfa, inflight,
                   session, held, history, mfa_lock, cache_lock>>

\* handle_login_callback, garth_sso.login returned ("needs_mfa", client_state):
\* "with self._mfa_lock:" is entered
LkLoginNeedsMfa(r) ==
    /\ At(r) = "await garth_sso.login"
    /\ nResume < MaxResume
    /\ mfa_lock = Nothing
    /\ mfa_lock' = Some(r)
    /\ nResume' = nResume + 1
    /\ Goto(r, [at |-> "with _mfa_lock: put", state |-> threads[r].state,
                email |-> threads[r].email, client_state |-> nResume + 1])
    /\ resp' = Running(r)
    /\ UNCHANGED <<clock, nextSecret, nAuthorize, nIssues, nLogins, clients,
                   tables, pending_mfa, inflight, session, held, history,
                   cache_lock>>

\* handle_login_callback: the body of the with block, its exit and the redirect
LkLoginPut(r) ==
    /\ At(r) = "with _mfa_lock: put"
    /\ pending_mfa' =
           {e \in CleanupExpiredMfa(pending_mfa) : e.state # threads[r].state}
           \cup {[state |-> threads[r].state,
                  client_state |-> threads[r].client_state,
                  garmin_email |-> threads[r].email, created_at |-> now]}
    /\ mfa_lock' = Nothing
    /\ Goto(r, Idle)
    /\ resp' = [op |-> "handle_login_callback", state |-> threads[r].state,
                garmin_email |-> threads[r].email,
                response |-> [status |-> 302, page |-> "/login/mfa?state=",
                              state |-> threads[r].state]]
    /\ UNCHANGED <<clock, counters, clients, tables, inflight, session, held,
                   history, cache_lock>>

\* handle_login_callback, garth_sso.login returned the two garth tokens:
\* _get_or_create_user, and create_session_from_garth_tokens is entered
LkLoginSucceeded(r) ==
    /\ At(r) = "await garth_sso.login"
    /\ nLogins < MaxLogins
    /\ nLogins' = nLogins + 1
    /\ users' = UsersWith(threads[r].email)
    /\ Goto(r, [at |-> "garth_client.dump", op |-> "handle_login_callback",
                state |-> threads[r].state, email |-> threads[r].email,
                user_id |-> UserIdFor(threads[r].email),
                creds |-> nLogins + 1])
    /\ resp' = Running(r)
    /\ UNCHANGED <<clock, nextSecret, nAuthorize, nIssues, nResume, clients,
                   auth_codes, access_tokens, refresh_tokens, pending_mfa,
                   inflight, session, held, history, mfa_lock, cache_lock>>

\* handle_mfa_callback with its await of garth_sso.resume_login inside the
\* with block that pops the entry
LkMfaPop_AwaitInside(r) ==
    /\ At(r) = "with _mfa_lock: pop"
    /\ LET pending == {e \in pending_mfa : e.state = threads[r].state}
       IN /\ pending_mfa' = pending_mfa \ pending
          /\ IF pending = Nothing \/ IsExpiredMfa(The(pending))
             THEN /\ Goto(r, Idle)
                  /\ mfa_lock' = Nothing
                  /\ resp' = [op |-> "handle_mfa_callback",
                              state |-> threads[r].state,
                              mfa_code |-> threads[r].mfa_code,
                              response |-> [status |-> 400,
                                            page |-> "Session expired"]]
             ELSE /\ Goto(r, [at |-> "await garth_sso.resume_login",
                              state |-> threads[r].state,
                              pending |-> The(pending)])
                  /\ mfa_lock' = mfa_lock
                  /\ resp' = Running(r)
    /\ UNCHANGED <<clock, counters, clients, tables, inflight, session, held,
                   history, cache_lock>>

\* handle_mfa_callback: "with self._mfa_lock:" of the pop is entered
LkMfaSubmit(r, state, mfa_code) ==
    /\ At(r) = "idle"
    /\ state # EmptyStr /\ mfa_code # EmptyStr
    /\ mfa_lock = Nothing
    /\ mfa_lock' = Some(r)
    /\ Goto(r, [at |-> "with _mfa_lock: pop", state |-> state,
                mfa_code |-> mfa_code])
    /\ resp' = Running(r)
    /\ UNCHANGED <<clock, counters, clients, tables, pending_mfa, inflight,
                   session, held, history, cache_lock>>

\* handle_mfa_callback: the pop, the exit of the with block, and either the
\* "Session expired" page or the await of garth_sso.resume_login
LkMfaPop(r) ==
    /\ At(r) = "with _mfa_lock: pop"
    /\ mfa_lock' = Nothing
    /\ LET pending == {e \in pending_mfa : e.state = threads[r].state}
       IN /\ pending_mfa' = pending_mfa \ pending
          /\ IF pending = Nothing \/ IsExpiredMfa(The(pending))
             THEN /\ Goto(r, Idle)
                  /\ resp' = [op |-> "handle_mfa_callback",
                              state |-> threads[r].state,
                              mfa_code |-> threads[r].mfa_code,
                              response |-> [status |-> 400,
                                            page |-> "Session expired"]]
             ELSE /\ Goto(r, [at |-> "await garth_sso.resume_login",
                              state |-> threads[r].state,
                              pending |-> The(pending)])
                  /\ resp' = Running(r)
    /\ UNCHANGED <<clock, counters, clients, tables, inflight, session, held,
                   history, cache_lock>>

\* handle_mfa_callback, garth_sso.resume_login raised: "with self._mfa_lock:"
\* of the restore is entered
LkMfaRaised(r) ==
    /\ At(r) = "await garth_sso.resume_login"
    /\ mfa_lock = Nothing
    /\ mfa_lock' = Some(r)
    /\ Goto(r, [at |-> "with _mfa_lock: restore", state |-> threads[r].state,
                pending |-> threads[r].pending])
    /\ resp' = Running(r)
    /\ UNCHANGED <<clock, counters, clients, tables, pending_mfa, inflight,
                   session, held, history, cache_lock>>

\* handle_mfa_callback: the restore, the exit of the with block and the call
\* of get_mfa_page
LkMfaRestore(r) ==
    /\ At(r) = "with _mfa_lock: restore"
    /\ pending_mfa' = {e \in pending_mfa : e.state # threads[r].state}
                      \cup {threads[r].pending}
    /\ failed_mfa' = failed_mfa \cup {threads[r].pending}
    /\ mfa_lock' = Nothing
    /\ Goto(r, [at |-> "get_mfa_page", op |-> "handle_mfa_callback",
                state |-> threads[r].state,
                error |-> "Invalid verification code. Please try again."])
    /\ resp' = Running(r)
    /\ UNCHANGED <<clock, counters, clients, tables, inflight, session, held,
                   minted_for, origin, cache_lock>>

\* GET /login/mfa: get_mfa_page is called with the state of the query
LkMfaPageRequest(r, state) ==
    /\ At(r) = "idle"
    /\ Goto(r, [at |-> "get_mfa_page", op |-> "get_mfa_page",
                state |-> state, error |-> EmptyStr])
    /\ resp' = Running(r)
    /\ UNCHANGED <<clock, counters, clients, tables, pending_mfa, inflight,
                   session, held, history, mfa_lock, cache_lock>>

\* get_mfa_page: "with self._mfa_lock:" is entered
LkMfaPageEnter(r) ==
    /\ At(r) = "get_mfa_page"
    /\ mfa_lock = Nothing
    /\ mfa_lock' = Some(r)
    /\ Goto(r, [threads[r] EXCEPT !.at = "with _mfa_lock: get"])
    /\ resp' = Running(r)
    /\ UNCHANGED <<clock, counters, clients, tables, pending_mfa, inflight,
                   session, held, history, cache_lock>>

\* get_mfa_page: the lookup, the exit of the with block and the page
LkMfaPageRead(r) ==
    /\ At(r) = "with _mfa_lock: get"
    /\ mfa_lock' = Nothing
    /\ Goto(r, Idle)
    /\ resp' = [op |-> threads[r].op, state |-> threads[r].state,
                response |-> MfaPage(pending_mfa, threads[r].state,
                                     threads[r].error)]
    /\ UNCHANGED <<clock, counters, clients, tables, pending_mfa, inflight,
                   session, held, history, cache_lock>>

\* handle_mfa_callback, garth_sso.resume_login returned the two garth tokens:
\* _get_or_create_user, and create_session_from_garth_tokens is entered
LkMfaResumed(r) ==
    /\ At(r) = "await garth_sso.resume_login"
    /\ nLogins < MaxLogins
    /\ nLogins' = nLogins + 1
    /\ users' = UsersWith(threads[r].pending.garmin_email)
    /\ Goto(r, [at |-> "garth_client.dump", op |-> "handle_mfa_callback",
                state |-> threads[r].state,
                email |-> threads[r].pending.garmin_email,
                user_id |-> UserIdFor(threads[r].pending.garmin_email),
                creds |-> nLogins + 1])
    /\ resp' = Running(r)
    /\ UNCHANGED <<clock, nextSecret, nAuthorize, nIssues, nResume, clients,
                   auth_codes, access_tokens, refresh_tokens, pending_mfa,
                   inflight, session, held, history, mfa_lock, cache_lock>>

\* create_session_from_garth_tokens: garth_client.dump(token_dir), before the
\* lock is asked for
LkCreateDump(r) ==
    /\ At(r) = "garth_client.dump"
    /\ disk' = DiskWith(threads[r].user_id, threads[r].creds)
    /\ Goto(r, [threads[r] EXCEPT !.at = "create_session: dumped"])
    /\ resp' = Running(r)
    /\ UNCHANGED <<clock, counters, clients, tables, pending_mfa, inflight,
                   token_user_map, cache, held, history, mfa_lock, cache_lock>>

\* create_session_from_garth_tokens: "with self._lock:" is entered
LkCreateEnter(r) ==
    /\ At(r) = "create_session: dumped"
    /\ cache_lock = Nothing
    /\ cache_lock' = Some(r)
    /\ Goto(r, [threads[r] EXCEPT !.at = "with _lock: pop"])
    /\ resp' = Running(r)
    /\ UNCHANGED <<clock, counters, clients, tables, pending_mfa, inflight,
                   session, held, history, mfa_lock>>

\* create_session_from_garth_tokens: the pop and the exit of the with block;
\* back in the callback, _complete_auth_flow
LkCreatePop(r) ==
    /\ At(r) = "with _lock: pop"
    /\ cache' = CacheWithout(threads[r].user_id)
    /\ cache_lock' = Nothing
    /\ LET done == CompleteAuthFlow(threads[r].state, threads[r].user_id)
       IN /\ auth_codes' = done.auth_codes
          /\ nextSecret' = IF done.minted THEN nextSecret + 1 ELSE nextSecret
          /\ minted_for' = IF done.minted
                           THEN minted_for \cup
                                {[code |-> done.response.code,
                                  state |-> threads[r].state,
                                  garmin_email |-> threads[r].email]}
                           ELSE minted_for
          /\ resp' = [op |-> threads[r].op, state |-> threads[r].state,
                      response |-> done.response]
    /\ Goto(r, Idle)
    /\ UNCHANGED <<clock, nAuthorize, nIssues, nLogins, nResume, clients,
                   users, access_tokens, refresh_tokens, pending_mfa, inflight,
                   token_user_map, disk, held, origin, failed_mfa, mfa_lock>>

\* SessionManager.get_client: "with self._lock:" is entered
LkGetClient(r, user_id) ==
    /\ At(r) = "idle"
    /\ cache_lock = Nothing
    /\ cache_lock' = Some(r)
    /\ Goto(r, [at |-> "with _lock: get", user_id |-> user_id])
    /\ resp' = Running(r)
    /\ UNCHANGED <<clock, counters, clients, tables, pending_mfa, inflight,
                   session, held, history, mfa_lock>>

\* SessionManager.get_client: the cache lookup and the isdir test; the with
\* block is left by the two returns, and not before Garmin.login(token_dir)
LkGetClientLookup(r) ==
    /\ At(r) = "with _lock: get"
    /\ LET user_id == threads[r].user_id
           cached == {c \in cache : c.user_id = user_id}
       IN IF cached # Nothing /\ ~IsExpiredCache(The(cached))
          THEN /\ cache_lock' = Nothing
               /\ Goto(r, Idle)
               /\ resp' = [op |-> "session_manager.get_client",
                           user_id |-> user_id,
                           result |-> Some(The(cached).client)]
          ELSE IF OnDisk(user_id) = Nothing
          THEN /\ cache_lock' = Nothing
               /\ Goto(r, Idle)
               /\ resp' = [op |-> "session_manager.get_client",
                           user_id |-> user_id, result |-> Nothing]
          ELSE /\ cache_lock' = cache_lock
               /\ Goto(r, [at |-> "garmin.login(token_dir)",
                           user_id |-> user_id])
               /\ resp' = Running(r)
    /\ UNCHANGED <<clock, counters, clients, tables, pending_mfa, inflight,
                   session, held, history, mfa_lock>>

\* SessionManager.get_client: Garmin.login(token_dir) returned (restore_ok) or
\* raised; the cache entry is stored and the with block is left
LkGetClientRestored(r, restore_ok) ==
    /\ At(r) = "garmin.login(token_dir)"
    /\ LET user_id == threads[r].user_id
           found == OnDisk(user_id)
       IN IF restore_ok /\ found # Nothing
          THEN LET garmin == [creds |-> The(found).creds]
               IN /\ cache' = {c \in cache : c.user_id # user_id} \cup
                              {[user_id |-> user_id, client |-> garmin,
                                expires_at |-> now + CACHE_TTL]}
                  /\ resp' = [op |-> "session_manager.get_client",
                              user_id |-> user_id, result |-> Some(garmin)]
          ELSE /\ cache' = cache
               /\ resp' = [op |-> "session_manager.get_client",
                           user_id |-> user_id, result |-> Nothing]
    /\ cache_lock' = Nothing
    /\ Goto(r, Idle)
    /\ UNCHANGED <<clock, counters, clients, tables, pending_mfa, inflight,
                   token_user_map, disk, held, history, mfa_lock>>

\* The requests start where one authorization is waiting for its login: the
\* state Spec reaches by its first Authorize.
Authorized ==
    /\ now = 0
    /\ ticks = 0
    /\ nextSecret = 2
    /\ nAuthorize = 1
    /\ nIssues = 0
    /\ nLogins = 0
    /\ nResume = 0
    /\ oauth_clients = {}
    /\ users = {}
    /\ auth_codes = {FlowRow(1, "s1", None, STATE_TTL)}
    /\ access_tokens = {}
    /\ refresh_tokens = {}
    /\ pending_mfa = {}
    /\ inflight = {}
    /\ token_user_map = {}
    /\ cache = {}
    /\ disk = {}
    /\ held_codes = {}
    /\ held_refresh = {}
    /\ minted_for = {}
    /\ registered = {}
    /\ origin = {}
    /\ failed_mfa = {}
    /\ mfa_lock = Nothing
    /\ cache_lock = Nothing
    /\ threads = NoRequests

LockInit == Authorized /\ resp = [op |-> "init"]

\* The requests taken statement by statement, any two of them at a time.
LockNext ==
    \/ Tick
    \/ \E r \in Requests, st \in Readable : LkLoginSubmit(r, st, "a@x")
    \/ \E r \in Requests : LkLoginRaised(r)
    \/ \E r \in Requests : LkLoginNeedsMfa(r)
    \/ \E r \in Requests : LkLoginPut(r)
    \/ \E r \in Requests : LkLoginSucceeded(r)
    \/ \E r \in Requests, st \in MfaStates : LkMfaSubmit(r, st, "123456")
    \/ \E r \in Requests : LkMfaPop(r)
    \/ \E r \in Requests : LkMfaRaised(r)
    \/ \E r \in Requests : LkMfaRestore(r)
    \/ \E r \in Requests, st \in MfaStates : LkMfaPageRequest(r, st)
    \/ \E r \in Requests : LkMfaPageEnter(r)
    \/ \E r \in Requests : LkMfaPageRead(r)
    \/ \E r \in Requests : LkMfaResumed(r)
    \/ \E r \in Requests : LkCreateDump(r)
    \/ \E r \in Requests : LkCreateEnter(r)
    \/ \E r \in Requests : LkCreatePop(r)
    \/ \E r \in Requests, u \in UserIds : LkGetClient(r, u)
    \/ \E r \in Requests : LkGetClientLookup(r)
    \/ \E r \in Requests, ok \in BOOLEAN : LkGetClientRestored(r, ok)

LockSpec == LockInit /\ [][LockNext]_vars

\* --------------------------------- the session manager under threads
\* The four methods of SessionManager called from any two threads at a time.
\* The statements outside "with self._lock:" (the upstream login, makedirs,
\* dump, isdir, rmtree) are steps of their own; a with block of one statement
\* is one step, taken when the lock is free.

\* Frames of a thread in SessionManager
InSessionManager(r, at, user_id, creds) ==
    Goto(r, [at |-> at, user_id |-> user_id, creds |-> creds])

\* create_session: Garmin(...).login(), makedirs and garth.dump(token_dir)
ThCreateSession(r, user_id) ==
    /\ At(r) = "idle"
    /\ nLogins < MaxLogins
    /\ nLogins' = nLogins + 1
    /\ disk' = DiskWith(user_id, nLogins + 1)
    /\ InSessionManager(r, "create_session: with _lock", user_id, nLogins + 1)
    /\ resp' = Running(r)
    /\ UNCHANGED <<clock, nextSecret, nAuthorize, nIssues, nResume, clients,
                   tables, pending_mfa, inflight, token_user_map, cache, held,
                   history, mfa_lock, cache_lock>>

\* create_session: "self._cache[user_id] = _CachedClient(garmin, CACHE_TTL)"
\* under the lock, and the return
ThCreateSessionPut(r) ==
    /\ At(r) = "create_session: with _lock"
    /\ cache_lock = Nothing
    /\ LET user_id == threads[r].user_id
           garmin == [creds |-> threads[r].creds]
       IN /\ cache' = CacheWithout(user_id) \cup
                      {[user_id |-> user_id, client |-> garmin,
                        expires_at |-> now + CACHE_TTL]}
          /\ resp' = [op |-> "create_session", user_id |-> user_id,
                      result |-> garmin]
    /\ Goto(r, Idle)
    /\ UNCHANGED <<clock, counters, clients, tables, pending_mfa, inflight,
                   token_user_map, disk, held, history, mfa_lock, cache_lock>>

\* create_session_from_garth_tokens: makedirs and garth_client.dump(token_dir)
ThCreateFromTokens(r, user_id) ==
    /\ At(r) = "idle"
    /\ nLogins < MaxLogins
    /\ nLogins' = nLogins + 1
    /\ disk' = DiskWith(user_id, nLogins + 1)
    /\ InSessionManager(r, "create_session_from_garth_tokens: with _lock",
                        user_id, nLogins + 1)
    /\ resp' = Running(r)
    /\ UNCHANGED <<clock, nextSecret, nAuthorize, nIssues, nResume, clients,
                   tables, pending_mfa, inflight, token_user_map, cache, held,
                   history, mfa_lock, cache_lock>>

\* create_session_from_garth_tokens: "self._cache.pop(user_id, None)" under
\* the lock, and the return
ThCreateFromTokensPop(r) ==
    /\ At(r) = "create_session_from_garth_tokens: with _lock"
    /\ cache_lock = Nothing
    /\ cache' = CacheWithout(threads[r].user_id)
    /\ resp' = [op |-> "create_session_from_garth_tokens",
                user_id |-> threads[r].user_id, creds |-> threads[r].creds]
    /\ Goto(r, Idle)
    /\ UNCHANGED <<clock, counters, clients, tables, pending_mfa, inflight,
                   token_user_map, disk, held, history, mfa_lock, cache_lock>>

\* remove_session: "del self._cache[user_id]" under the lock
ThRemoveSession(r, user_id) ==
    /\ At(r) = "idle"
    /\ cache_lock = Nothing
    /\ cache' = {c \in cache : c.user_id # user_id}
    /\ Goto(r, [at |-> "remove_session: isdir", user_id |-> user_id,
                removed |-> \E c \in cache : c.user_id = user_id])
    /\ resp' = Running(r)
    /\ UNCHANGED <<clock, counters, clients, tables, pending_mfa, inflight,
                   token_user_map, disk, held, history, mfa_lock, cache_lock>>

\* remove_session: isdir, shutil.rmtree(token_dir), and the return
ThRemoveSessionRmtree(r) ==
    /\ At(r) = "remove_session: isdir"
    /\ disk' = DiskWithout(threads[r].user_id)
    /\ resp' = [op |-> "remove_session", user_id |-> threads[r].user_id,
                result |-> (threads[r].removed
                            \/ OnDisk(threads[r].user_id) # Nothing)]
    /\ Goto(r, Idle)
    /\ UNCHANGED <<clock, counters, clients, tables, pending_mfa, inflight,
                   token_user_map, cache, held, history, mfa_lock, cache_lock>>

ThreadNext ==
    \/ Tick
    \/ \E r \in Requests : ThCreateSession(r, "u1")
    \/ \E r \in Requests : ThCreateSessionPut(r)
    \/ \E r \in Requests : ThCreateFromTokens(r, "u1")
    \/ \E r \in Requests : ThCreateFromTokensPop(r)
    \/ \E r \in Requests : ThRemoveSession(r, "u1")
    \/ \E r \in Requests : ThRemoveSessionRmtree(r)
    \/ \E r \in Requests : LkGetClient(r, "u1")
    \/ \E r \in Requests : LkGetClientLookup(r)
    \/ \E r \in Requests, ok \in BOOLEAN : LkGetClientRestored(r, ok)

ThreadSpec == Init /\ [][ThreadNext]_vars

\* ======================================================== properties
\* The placeholder row authorize left for a state token, and the same while it
\* has not expired.
Placeholder(state) == {r \in auth_codes : r.code = state /\ r.user_id = None}
LivePlaceholder(state) == {r \in Placeholder(state) : r.expires_at >= now}

\* A step in which a login callback came to _complete_auth_flow.
CompletionStep ==
    /\ resp'.op \in {"handle_login_callback", "handle_mfa_callback"}
    /\ resp'.response.page \in {"redirect", "Authorization expired"}

\* The steps in which garth_sso.resume_login returns to handle_mfa_callback,
\* and the request that was waiting for it.
Resumed == The(inflight \ inflight')
MfaFailedStep == inflight' # inflight /\ inflight' \subseteq inflight /\ nLogins' = nLogins
MfaSucceededStep == inflight' # inflight /\ inflight' \subseteq inflight /\ nLogins' # nLogins

\* The state tokens authorize has handed out.
HandedOut == {r.code : r \in {x \in auth_codes : x.user_id = None}}
                 \cup {m.state : m \in minted_for}

\* ---- C1
\* C1: while the row authorize inserted for a state token still has a null
\* user id, load_authorization_code returns None for that token, whichever
\* client asks, and every call made on it has returned None.
C1_PlaceholderNeverLoads ==
    /\ \A r \in auth_codes :
          r.user_id = None =>
             \A c \in ClientIds : LoadAuthorizationCode(c, r.code) = Nothing
    /\ (resp.op = "load_authorization_code" /\ Placeholder(resp.code) # {})
          => resp.result = Nothing

\* C1 witness: the owning client has just asked for its own unexpired
\* placeholder.
C1_Witness ==
    /\ resp.op = "load_authorization_code"
    /\ \E r \in LivePlaceholder(resp.code) : r.client_id = resp.client

\* ---- C2
\* C2: a completion for state S that finds S's placeholder present and
\* unexpired deletes the placeholder, inserts exactly one code row and
\* redirects with that code; every other completion returns the 400
\* "Authorization expired" page and leaves auth_codes alone; so at most one
\* code is ever minted from S.
C2_AtMostOneCodePerState ==
    [][CompletionStep =>
         LET state == resp'.state
             inserted == auth_codes' \ auth_codes
         IN /\ IF LivePlaceholder(state) # {}
               THEN /\ resp'.response.page = "redirect"
                    /\ auth_codes \ auth_codes' = Placeholder(state)
                    /\ Cardinality(inserted) = 1
                    /\ \A r \in inserted : /\ r.code = resp'.response.code
                                           /\ r.code # state
                                           /\ r.user_id # None
               ELSE /\ resp'.response = AuthorizationExpired
                    /\ auth_codes' = auth_codes
            /\ Cardinality({m \in minted_for' : m.state = state}) <= 1]_vars

\* C2 witness: an MFA completion for a state whose code a credential login
\* had minted meanwhile got the 400 page.
C2_Witness ==
    /\ resp.op = "handle_mfa_callback"
    /\ resp.response = AuthorizationExpired
    /\ \E m \in minted_for : m.state = resp.state

\* C2 as stated: the first completion for S (its placeholder is still there)
\* deletes the placeholder and inserts one code row, so that exactly one code
\* is minted from S.
C2_FirstCompletionMints ==
    [][(CompletionStep /\ Placeholder(resp'.state) # {}) =>
         /\ resp'.response.page = "redirect"
         /\ \A r \in auth_codes' : r.code # resp'.state
         /\ Cardinality(auth_codes' \ auth_codes) = 1]_vars

\* ---- C8
\* C8: when the upstream rejects an MFA code for S, the entry popped for S is
\* back in the registry, with the same resume state and email, and is the only
\* entry for S; a later submission of a non-empty code for S within the TTL
\* is passed to the upstream again; and when the upstream then accepts it the
\* login completes: it mints exactly one code, for the user of the entry's
\* email, if S's placeholder is still present and unexpired, and returns the
\* 400 "Authorization expired" page and mints nothing otherwise.
C8_FailedMfaKeepsSession ==
    [][/\ MfaFailedStep =>
             /\ Resumed.pending \in pending_mfa'
             /\ \A e \in pending_mfa' : e.state = Resumed.state => e = Resumed.pending
       /\ (/\ resp'.op = "handle_mfa_callback"
           /\ inflight' = inflight
           /\ \E e \in pending_mfa \cap failed_mfa :
                 e.state = resp'.state /\ ~IsExpiredMfa(e))
             => resp'.response = MfaPage(pending_mfa, resp'.state,
                                         "Verification code is required.")
       /\ (MfaSucceededStep /\ Resumed.pending \in failed_mfa) =>
             LET inserted == auth_codes' \ auth_codes
             IN IF LivePlaceholder(Resumed.state) # {}
                THEN /\ resp'.response.page = "redirect"
                     /\ Cardinality(inserted) = 1
                     /\ \A r \in inserted :
                           /\ r.code = resp'.response.code
                           /\ \E u \in users' :
                                 /\ u.id = r.user_id
                                 /\ u.garmin_email = Resumed.pending.garmin_email
                ELSE /\ resp'.response = AuthorizationExpired
                     /\ auth_codes' = auth_codes]_vars

\* C8 witness: after a rejected code for a state, a second submission for the
\* same state completed the login and was redirected with a code.
C8_Witness ==
    /\ resp.op = "handle_mfa_callback"
    /\ resp.response.page = "redirect"
    /\ \E e \in failed_mfa : e.state = resp.state
    /\ \E m \in minted_for : m.state = resp.state /\ m.code = resp.response.code

\* C8 as stated: after a rejected code for a state authorize handed out, an
\* accepted submission for the same state always mints exactly one code.
C8_RetryAlwaysMints ==
    [][(/\ MfaSucceededStep
        /\ Resumed.pending \in failed_mfa
        /\ Resumed.state \in HandedOut) =>
         /\ resp'.response.page = "redirect"
         /\ Cardinality(auth_codes' \ auth_codes) = 1]_vars

\* ---- C10
\* C10: load_authorization_code returns a descriptor only for a row that is
\* the calling client's, has a user id and has not expired, and the descriptor
\* is that row's; asked for a code whose row is another client's, it returns
\* None, which is what it returns for a code that has no row.
C10_OnlyOwnCodesLoad ==
    resp.op = "load_authorization_code" =>
        LET rows == {r \in auth_codes : r.code = resp.code}
        IN /\ resp.result # Nothing =>
                 \E r \in rows : /\ r.client_id = resp.client
                                 /\ r.user_id # None
                                 /\ r.expires_at >= now
                                 /\ The(resp.result).code = r.code
                                 /\ The(resp.result).client_id = r.client_id
           /\ (\A r \in rows : r.client_id # resp.client) =>
                 /\ resp.result = Nothing
                 /\ resp.result = LoadAuthorizationCode(resp.client, UnknownState)

\* C10 witness: a client has just asked for another client's minted,
\* unexpired code.
C10_Witness ==
    /\ resp.op = "load_authorization_code"
    /\ \E r \in auth_codes : /\ r.code = resp.code
                             /\ r.client_id # resp.client
                             /\ r.user_id # None
                             /\ r.expires_at >= now

\* Every value secrets.token_urlsafe hands out within the bounds.
Secrets == {Secret(n) : n \in 1..(MaxAuthorize + MaxLogins + 2 * MaxIssues)}

\* ---- C3
\* C3 as stated: an exchange_authorization_code call for a code whose row an
\* earlier exchange has deleted issues no access token and no refresh token.
\* (Only exchange_authorization_code deletes the row of a code a caller holds.)
C3_SecondExchangeIssuesNothing ==
    [][(/\ resp'.op = "exchange_authorization_code"
        /\ \A r \in auth_codes : r.code # resp'.code.code) =>
         /\ access_tokens' = access_tokens
         /\ refresh_tokens' = refresh_tokens]_vars

\* ---- C4
\* C4 as stated: an exchange_refresh_token call for a refresh token whose row
\* an earlier refresh has deleted issues no access token and no refresh token.
C4_SecondRefreshIssuesNothing ==
    [][(/\ resp'.op = "exchange_refresh_token"
        /\ \A r \in refresh_tokens : r.token # resp'.token.token) =>
         /\ access_tokens' = access_tokens
         /\ refresh_tokens' = refresh_tokens]_vars

\* ---- C5
\* C5: right after exchange_authorization_code(client, d) for a descriptor d
\* that load_authorization_code returns for client, load_access_token on the
\* returned access token returns a token with d's client id and d's scopes;
\* and so does every later load_access_token that still returns the token.
C5_ExchangedTokenLoads ==
    [][/\ (/\ resp'.op = "exchange_authorization_code"
           /\ LoadAuthorizationCode(resp'.client, resp'.code.code) = Some(resp'.code))
             => \A t \in Secrets :
                   t = resp'.result.access_token =>
                      /\ LoadAccessTokenResult(t)' # Nothing
                      /\ The(LoadAccessTokenResult(t)').client_id = resp'.code.client_id
                      /\ The(LoadAccessTokenResult(t)').scopes = resp'.code.scopes
       /\ (resp'.op = "load_access_token" /\ resp'.result # Nothing)
             => \A o \in origin, d \in held_codes :
                   (o.token = resp'.token /\ o.via = "code" /\ d.code = o.code)
                      => /\ The(resp'.result).client_id = d.client_id
                         /\ The(resp'.result).scopes = d.scopes]_vars

\* C5 witness: load_access_token has just returned a token issued from a code
\* with three scopes.
C5_Witness ==
    /\ resp.op = "load_access_token"
    /\ resp.result # Nothing
    /\ Len(The(resp.result).scopes) = 3
    /\ \E o \in origin : o.token = resp.token /\ o.via = "code"

\* ---- C9
\* C9: a token that goes back to a code minted by the login of account E is
\* mapped by get_user_id_for_token to nothing or to the id of the one users
\* row of E, never to the id of another account.
C9_TokenMapsToItsUser ==
    /\ \A u1 \in users, u2 \in users :
          (u1.garmin_email = u2.garmin_email) = (u1.id = u2.id)
    /\ \A o \in origin :
          GetUserIdForToken(o.token) # None =>
             \E m \in minted_for, u \in users :
                /\ m.code = o.code
                /\ u.garmin_email = m.garmin_email
                /\ u.id = GetUserIdForToken(o.token)

\* C9 witness: the tokens issued from the codes of two accounts are mapped,
\* one to each user.
C9_Witness ==
    \E o1 \in origin, o2 \in origin :
        /\ o1.via = "code" /\ o2.via = "code"
        /\ GetUserIdForToken(o1.token) = "u1"
        /\ GetUserIdForToken(o2.token) = "u2"

\* ---- C6
\* C6: get_client(id) returns the metadata of the most recent register_client
\* call for id, and None when there was none; a registration changes what
\* get_client returns for its own id only; and register_client never raises,
\* whether or not the id was registered before.
C6_LastRegistrationWins ==
    /\ \A id \in RegClientIds :
          GetClientResult(id) = {g \in registered : g.client_id = id}
    /\ resp.op = "get_client" =>
          resp.result = {g \in registered : g.client_id = resp.client_id}
    /\ resp.op = "register_client" =>
          /\ ~resp.raised
          /\ GetClientResult(resp.client_info.client_id) = Some(resp.client_info)

\* C6 witness: a client id has just been registered again with other
\* metadata, while another id is registered too.
C6_Witness ==
    /\ resp.op = "register_client"
    /\ resp.replaced # Nothing
    /\ resp.replaced # Some(resp.client_info)
    /\ \E g \in registered : g.client_id # resp.client_info.client_id

\* ---- C7
\* C7: the get_client(user_id) call that directly follows
\* create_session_from_garth_tokens(user_id, creds) returns a client restored
\* from creds when the restore from disk succeeds and None when it raises; it
\* never returns a handle cached before the call.
C7_NextClientIsFresh ==
    (resp.op = "session_manager.get_client" /\ resp.follows # Nothing) =>
        LET made == The(resp.follows)
        IN /\ resp.result = IF resp.restore_ok
                            THEN Some([creds |-> made.creds]) ELSE Nothing
           /\ \A c \in made.evicted : resp.result # Some(c.client)

\* C7 witness: an unexpired cached handle was dropped by the call, and the
\* next get_client returned a client with the new credentials.
C7_Witness ==
    /\ resp.op = "session_manager.get_client"
    /\ resp.follows # Nothing
    /\ The(resp.follows).evicted # {}
    /\ resp.result = Some([creds |-> The(resp.follows).creds])

\* C7 as stated: the get_client call that follows always returns a client
\* restored from the new credentials.
C7_NextClientIsRestored ==
    (resp.op = "session_manager.get_client" /\ resp.follows # Nothing) =>
        resp.result = Some([creds |-> The(resp.follows).creds])

\* ---- C11
\* C11: a load_access_token(T) call that returns a token whose row has user
\* id U leaves T mapped to U, also when a restart has emptied the map before;
\* a call that returns None (no row, or the row has expired) leaves the map
\* as it was.
C11_LoadReassertsMapping ==
    [][resp'.op = "load_access_token" =>
         IF resp'.result # Nothing
         THEN \A r \in access_tokens :
                 (r.token = resp'.token /\ r.user_id # None) =>
                    \E m \in token_user_map' :
                       /\ m.token = r.token /\ m.user_id = r.user_id
                       /\ \A m2 \in token_user_map' : m2.token = r.token => m2 = m
         ELSE token_user_map' = token_user_map]_vars

\* C11 witness: after a restart (the mapping of another user's token row is
\* gone) a load has returned a token and the token is mapped to its row's user.
C11_Witness ==
    /\ resp.op = "load_access_token"
    /\ resp.result # Nothing
    /\ \E r \in access_tokens :
          /\ r.token = resp.token /\ r.user_id # None
          /\ GetUserIdForToken(r.token) = r.user_id
    /\ \E r \in access_tokens :
          /\ r.token # resp.token /\ r.user_id # None
          /\ GetUserIdForToken(r.token) = None

\* ---- C12
\* C12: right after revoke_token(t), load_access_token(t.token) returns None
\* and load_refresh_token(client, t.token) returns None for every client;
\* the call removes no row of either table with another token value; and a
\* token value that has left a table never comes back into it.
C12_RevokedTokenIsGone ==
    [][/\ resp'.op = "revoke_token" =>
             \A v \in Secrets \cup {UnknownState} :
                v = resp'.token =>
                   /\ LoadAccessTokenResult(v)' = Nothing
                   /\ \A c \in ClientIds : LoadRefreshTokenResult(c, v)' = Nothing
                   /\ access_tokens' = {r \in access_tokens : r.token # v}
                   /\ refresh_tokens' = {r \in refresh_tokens : r.token # v}
       /\ \A n \in 1..(nextSecret - 1) :
             /\ (\A r \in access_tokens : r.token # Secret(n))
                   => \A r \in access_tokens' : r.token # Secret(n)
             /\ (\A r \in refresh_tokens : r.token # Secret(n))
                   => \A r \in refresh_tokens' : r.token # Secret(n)]_vars

\* C12 witness: a refresh token that could be loaded has just been revoked
\* while an access token and another refresh token are still stored.
C12_Witness ==
    /\ resp.op = "revoke_token"
    /\ \E d \in held_refresh : d.token = resp.token
    /\ \A r \in refresh_tokens : r.token # resp.token
    /\ access_tokens # {}
    /\ refresh_tokens # {}

\* ---- C13
\* C13: when exchange_refresh_token is called with an empty requested-scope
\* list, the access token row and the refresh token row it inserts hold the
\* scopes of the RefreshToken it was given, load_access_token on the new
\* access token returns those scopes, and the scope string it returns is
\* those scopes joined by spaces.
C13_RefreshCarriesScopes ==
    [][(resp'.op = "exchange_refresh_token" /\ resp'.scopes = <<>>) =>
         /\ resp'.result.scope = Join(" ", resp'.token.scopes)
         /\ \A t \in Secrets :
               t = resp'.result.access_token =>
                  /\ \E r \in access_tokens' :
                        r.token = t /\ ParseScopes(r.scopes) = resp'.token.scopes
                  /\ LoadAccessTokenResult(t)' # Nothing
                  /\ The(LoadAccessTokenResult(t)').scopes = resp'.token.scopes
         /\ \A t \in Secrets :
               t = resp'.result.refresh_token =>
                  \E r \in refresh_tokens' :
                     r.token = t /\ ParseScopes(r.scopes) = resp'.token.scopes]_vars

\* C13 witness: a refresh token with three scopes has just been exchanged
\* with no requested scopes.
C13_Witness ==
    /\ resp.op = "exchange_refresh_token"
    /\ resp.scopes = <<>>
    /\ Len(resp.token.scopes) = 3
    /\ \E r \in refresh_tokens : r.token = resp.result.refresh_token

C15_UnresolvedTokenMustReauthenticate ==
    (/\ resp.op = "resolver.get_client"
     /\ resp.token # Nothing
     /\ resp.user_id = None \/ resp.session = Nothing)
    => resp.error = ReAuthenticate /\ resp.result = Nothing

\* C16: SessionManager.get_client(user_id) returns nothing exactly when the
\* user has no unexpired cache entry and either no credential directory
\* exists or the restore raises; otherwise it returns a client and an
\* unexpired cache entry for the user exists afterwards; a failed restore
\* leaves the cache as it was.
C16_GetClientOutcome ==
    [][resp'.op = "session_manager.get_client" =>
         LET u == resp'.user_id
             hit == \E c \in cache : c.user_id = u /\ ~(now > c.expires_at)
             dir == \E d \in disk : d.user_id = u
         IN /\ (resp'.result = Nothing) <=> (~hit /\ (~dir \/ ~resp'.restore_ok))
            /\ resp'.result # Nothing =>
                   \E c \in cache' : c.user_id = u /\ ~(now' > c.expires_at)
            /\ (~hit /\ dir /\ ~resp'.restore_ok) => cache' = cache]_vars

\* C16 witness: a restore failed for a user whose directory exists and whose
\* cache entry has expired; the call returned nothing and the entry is still
\* the expired one.
C16_Witness ==
    /\ resp.op = "session_manager.get_client"
    /\ ~resp.restore_ok
    /\ resp.result = Nothing
    /\ OnDisk(resp.user_id) # Nothing
    /\ \E c \in cache : c.user_id = resp.user_id /\ IsExpiredCache(c)

\* C17: remove_session(user_id) leaves the user without a credential
\* directory and without a cache entry, so has_session is false and
\* get_client returns nothing whatever the restore would do; it returns true
\* exactly when a cache entry or a directory existed; the sessions of other
\* users are untouched; has_session reports the directory; and a user with
\* neither directory nor cache entry stays so, get_client returning nothing,
\* through every step that is not create_session_from_garth_tokens for that
\* user.
C17_RemovedUntilPersisted ==
    [][\A u \in UserIds :
         /\ (resp'.op = "remove_session" /\ resp'.user_id = u) =>
               /\ OnDisk(u)' = Nothing
               /\ \A ok \in BOOLEAN : SessionGetClient(u, ok)'.result = Nothing
               /\ resp'.result <=> (\/ \E c \in cache : c.user_id = u
                                    \/ \E d \in disk : d.user_id = u)
               /\ {c \in cache' : c.user_id # u} = {c \in cache : c.user_id # u}
               /\ {d \in disk' : d.user_id # u} = {d \in disk : d.user_id # u}
         /\ (resp'.op = "has_session" /\ resp'.user_id = u) =>
               (resp'.result <=> \E d \in disk : d.user_id = u)
         /\ (/\ OnDisk(u) = Nothing
             /\ ~ \E c \in cache : c.user_id = u
             /\ ~(resp'.op = "create_session_from_garth_tokens"
                  /\ resp'.user_id = u))
            => /\ OnDisk(u)' = Nothing
               /\ ~ \E c \in cache' : c.user_id = u
               /\ (resp'.op = "session_manager.get_client" /\ resp'.user_id = u)
                    => resp'.result = Nothing
               /\ (resp'.op = "has_session" /\ resp'.user_id = u)
                    => ~resp'.result]_vars

\* C17 witness: a removal that returned true left the user with no directory
\* while another user's directory and cache entry are still there.
C17_Witness ==
    /\ resp.op = "remove_session"
    /\ resp.result
    /\ \E c \in cache : c.user_id # resp.user_id
    /\ \E d \in disk : d.user_id # resp.user_id
    /\ OnDisk(resp.user_id) = Nothing

\* The state values a form of the login pages can carry
FormStates == Secrets \cup {UnknownState}

\* C18: an MFA submission with a verification code, for a state that has no
\* pending entry or one older than the TTL, is answered with the 400 "Session
\* expired" page, starts no upstream resume and leaves no pending entry for
\* the state; and an entry for a state that has none comes only from a
\* credential submission or from a failed verification putting back the entry
\* it had popped.
C18_ExpiredSubmissionIsTerminal ==
    [][\A s \in FormStates :
         LET pending == {e \in pending_mfa : e.state = s}
         IN /\ (/\ "mfa_code" \in DOMAIN resp'
                /\ resp'.state = s
                /\ resp'.mfa_code # EmptyStr
                /\ pending = Nothing \/ IsExpiredMfa(The(pending)))
               => /\ resp'.op = "handle_mfa_callback"
                  /\ resp'.response = [status |-> 400, page |-> "Session expired"]
                  /\ inflight' = inflight
                  /\ ~ \E e \in pending_mfa' : e.state = s
            /\ (pending = Nothing /\ \E e \in pending_mfa' : e.state = s)
               => \/ resp'.op = "handle_login_callback" /\ resp'.state = s
                  \/ \E req \in inflight :
                        /\ req.state = s
                        /\ inflight' = inflight \ {req}
                        /\ req.pending \in pending_mfa']_vars

\* C18 witness: a submission for a state was answered "Session expired"
\* while an earlier submission for the same state is being verified upstream.
C18_Witness ==
    /\ resp.op = "handle_mfa_callback"
    /\ "mfa_code" \in DOMAIN resp
    /\ resp.mfa_code # EmptyStr
    /\ resp.response.page = "Session expired"
    /\ \E req \in inflight : req.state = resp.state
    /\ ~ \E e \in pending_mfa : e.state = resp.state

\* C18 as stated: once a submission for a state was answered "Session
\* expired", a pending entry for that state comes back only by a credential
\* submission.
C18_OnlyNewLoginRevives ==
    [][\A s \in FormStates :
         (/\ resp.op = "handle_mfa_callback"
          /\ "mfa_code" \in DOMAIN resp
          /\ resp.mfa_code # EmptyStr
          /\ resp.state = s
          /\ resp.response.page = "Session expired"
          /\ \E e \in pending_mfa' : e.state = s)
         => resp'.op = "handle_login_callback" /\ resp'.state = s]_vars

\* C19: when garth_sso.login raises, handle_login_callback answers with the
\* login form for the same state and changes nothing: the authorization rows,
\* the users, the pending MFA entries, the tokens and the stored sessions are
\* as before, so what a successful submission with that state would do is
\* what it would have done before, and it mints a code when the placeholder
\* is live.
C19_FailedLoginChangesNothing ==
    [][\A st \in FormStates :
         (/\ resp'.op = "handle_login_callback"
          /\ resp'.state = st
          /\ resp'.response.page = "login"
          /\ resp'.response.error = "Invalid email or password.")
         => /\ resp'.response.status = 200
            /\ resp'.response.state = st
            /\ UNCHANGED <<tables, pending_mfa, inflight, session>>
            /\ \A e \in Emails :
                  /\ CompleteAuthFlow(st, UserIdFor(e))' =
                        CompleteAuthFlow(st, UserIdFor(e))
                  /\ LivePlaceholder(st) # Nothing =>
                        CompleteAuthFlow(st, UserIdFor(e))'.minted]_vars

\* C19 witness: a login was refused upstream for a state whose placeholder
\* row is there and not expired.
C19_Witness ==
    /\ resp.op = "handle_login_callback"
    /\ resp.response.page = "login"
    /\ resp.response.error = "Invalid email or password."
    /\ LivePlaceholder(resp.state) # Nothing

\* C20: when garth_sso.login reports that MFA is required,
\* handle_login_callback leaves exactly one pending entry for the submitted
\* state, holding the resume state of this upstream call, the submitted email
\* and the current time, answers with a 302 to /login/mfa for the same state,
\* and leaves the users table, the authorization rows and the stored sessions
\* as they were: no user row, no code.
C20_NeedsMfaStoresPending ==
    [][\A st \in FormStates :
         (/\ resp'.op = "handle_login_callback"
          /\ resp'.state = st
          /\ resp'.response.page = "/login/mfa?state=")
         => /\ {e \in pending_mfa' : e.state = st} =
                  {[state |-> st, client_state |-> nResume',
                    garmin_email |-> resp'.garmin_email, created_at |-> now]}
            /\ nResume' = nResume + 1
            /\ resp'.response.status = 302
            /\ resp'.response.state = st
            /\ UNCHANGED <<tables, session, nextSecret, minted_for>>]_vars

\* C20 witness: a login for a handed-out state was told to verify: the entry
\* for the state holds the submitted email, for which no user row exists, and
\* the placeholder row is still there.
C20_Witness ==
    /\ resp.op = "handle_login_callback"
    /\ resp.response.page = "/login/mfa?state="
    /\ \E e \in pending_mfa : e.state = resp.state
                              /\ e.garmin_email = resp.garmin_email
    /\ ~ \E u \in users : u.garmin_email = resp.garmin_email
    /\ LivePlaceholder(resp.state) # Nothing

\* The user id _complete_auth_flow stored on the row of a minted code: the id
\* of the user whose login minted it.
UserOfCode(code) ==
    {u.id : u \in {x \in users :
                     \E m \in minted_for : m.code = code
                                           /\ m.garmin_email = x.garmin_email}}

\* C21: every access-token and refresh-token row exchange_authorization_code
\* inserts carries the user id stored on the exchanged code's row and the
\* code's scopes, the access token expiring 3600 seconds and the refresh token
\* 30 days after the call. (The statement as the specification makes it; an
\* exchange of a code whose row is already deleted inserts rows with no user
\* id.)
C21_ExchangedTokensCarryCodeUser ==
    [][resp'.op = "exchange_authorization_code" =>
         /\ \A r \in (access_tokens' \ access_tokens) \cup
                     (refresh_tokens' \ refresh_tokens) :
               /\ {r.user_id} = UserOfCode(resp'.code.code)
               /\ r.scopes = Join(",", resp'.code.scopes)
         /\ \A r \in access_tokens' \ access_tokens : r.expires_at = now + 3600
         /\ \A r \in refresh_tokens' \ refresh_tokens :
               r.expires_at = now + 86400 * 30]_vars

\* C22: exchange_refresh_token deletes the row of the old refresh token and
\* inserts exactly one access-token row and one refresh-token row, both with
\* the user id of the old row; right after it load_refresh_token returns
\* nothing for the old value and the new token for the new value. (The
\* statement as the specification makes it; a second exchange of the same old
\* token finds no row to delete and inserts rows with no user id.)
C22_RefreshRotates ==
    [][resp'.op = "exchange_refresh_token" =>
         \A c \in ClientIds, old \in Secrets, new \in Secrets :
            (/\ c = resp'.client
             /\ old = resp'.token.token
             /\ new = resp'.result.refresh_token)
            => /\ \E row \in refresh_tokens :
                     /\ row.token = old
                     /\ row \notin refresh_tokens'
                     /\ \A r \in (access_tokens' \ access_tokens) \cup
                                 (refresh_tokens' \ refresh_tokens) :
                           r.user_id = row.user_id
               /\ Cardinality(access_tokens' \ access_tokens) = 1
               /\ Cardinality(refresh_tokens' \ refresh_tokens) = 1
               /\ LoadRefreshTokenResult(c, old)' = Nothing
               /\ LoadRefreshTokenResult(c, new)' # Nothing
               /\ \A d \in LoadRefreshTokenResult(c, new)' : d.token = new]_vars

\* C23: when codes are exchanged only after load_authorization_code returned
\* them, no exchange is made on a state token: the exchanged code is the key
\* of no row with a null user id, no state authorize handed out is ever the
\* code a token goes back to, and an exchange leaves the placeholder rows as
\* they are.
C23_PlaceholderNeverExchanged ==
    [][/\ resp'.op = "exchange_authorization_code" =>
            /\ Placeholder(resp'.code.code) = Nothing
            /\ resp'.code.code \notin HandedOut
            /\ {r \in auth_codes' : r.user_id = None} =
                  {r \in auth_codes : r.user_id = None}
       /\ \A o \in origin' : o.code \notin HandedOut']_vars

\* C23 witness: tokens were issued by an exchange while the placeholder row of
\* another authorization was waiting for its login.
C23_Witness ==
    /\ resp.op = "exchange_authorization_code"
    /\ \E r \in auth_codes : r.user_id = None
    /\ \E r \in access_tokens : r.token = resp.result.access_token

\* C24: whenever an authorization-code row with a non-null user id exists, a
\* User row with that id exists and the session manager holds credentials for
\* that user: the login created the user and persisted the credentials
\* before it minted the code.
C24_CodeHasUserAndSession ==
    \A r \in auth_codes :
       r.user_id # None =>
          /\ \E u \in users : u.id = r.user_id
          /\ OnDisk(r.user_id) # Nothing

\* C24 witness: a login callback has just minted a code; its row carries the
\* id of a user whose credentials are on disk.
C24_Witness ==
    /\ resp.op \in {"handle_login_callback", "handle_mfa_callback"}
    /\ resp.response.page = "redirect"
    /\ \E r \in auth_codes : /\ r.code = resp.response.code
                             /\ r.user_id # None
                             /\ \E u \in users : u.id = r.user_id
                             /\ OnDisk(r.user_id) # Nothing

\* C25: no registry operation keeps the mutex over an upstream call: a
\* request that is inside garth_sso.login or garth_sso.resume_login does not
\* hold the registry mutex, and the request that holds it is inside one of
\* the four with blocks, none of which contains an upstream call.
C25_NoUpstreamCallUnderMfaLock ==
    \A r \in Requests :
       /\ At(r) \in {"await garth_sso.login", "await garth_sso.resume_login"}
             => mfa_lock # Some(r)
       /\ mfa_lock = Some(r)
             => At(r) \in {"with _mfa_lock: put", "with _mfa_lock: pop",
                           "with _mfa_lock: restore", "with _mfa_lock: get"}

\* C25 witness: one request is waiting for garth_sso.resume_login, having
\* popped its entry under the mutex, while another request is inside a with
\* block of the registry.
C25_Witness ==
    \E r, q \in Requests :
       /\ At(r) = "await garth_sso.resume_login"
       /\ mfa_lock = Some(q)
       /\ q # r

\* C25 as stated: in every state in which a request is inside the upstream
\* call, the registry mutex is free.
C25_LockFreeDuringUpstreamCall ==
    (\E r \in Requests :
        At(r) \in {"await garth_sso.login", "await garth_sso.resume_login"})
    => mfa_lock = Nothing

\* C26: no request is restoring a session from the credential directory, or
\* in any other blocking call, while it holds the cache lock. (The statement
\* as the specification makes it; get_client calls Garmin.login(token_dir)
\* inside its with block.)
C26_NoRestoreUnderCacheLock ==
    \A r \in Requests :
       cache_lock = Some(r) => At(r) # "garmin.login(token_dir)"

\* C27: after any credential submission that stored a pending entry, any
\* rendering of the MFA page and any MFA submission, the registry holds no
\* entry older than the TTL. (The statement as the specification makes it;
\* only the credential submission sweeps.)
C27_NoExpiredEntryAfterAccess ==
    [][(\/ resp'.op = "handle_mfa_callback"
        \/ resp'.op = "await garth_sso.resume_login"
        \/ /\ resp'.op = "handle_login_callback"
           /\ resp'.response.page = "/login/mfa?state=")
       => \A e \in pending_mfa' : ~(now' - e.created_at > MFA_TTL)]_vars

\* C28: a pending entry passes the expiry test of an MFA submission, and the
\* MFA page is rendered for it, only while it is at most 300 seconds old; a
\* failed verification puts back the entry it popped, creation time
\* included; and an entry comes into the registry either so or stamped with
\* the time of the credential submission that stores it.
C28_EntryAcceptedWithinTtl ==
    [][/\ \A req \in inflight' \ inflight :
             now' - req.pending.created_at <= 300
       /\ (/\ resp'.op = "handle_mfa_callback"
           /\ resp'.response.page = "mfa")
          => \E e \in pending_mfa' : /\ e.state = resp'.state
                                     /\ now' - e.created_at <= 300
       /\ MfaFailedStep => Resumed.pending \in pending_mfa'
       /\ \A e \in pending_mfa' \ pending_mfa :
             \/ MfaFailedStep /\ e = Resumed.pending
             \/ e.created_at = now']_vars

\* C28 witness: an entry that a failed verification had put back was refused
\* by a later submission because it had grown older than the TTL.
C28_Witness ==
    /\ resp.op = "handle_mfa_callback"
    /\ "mfa_code" \in DOMAIN resp
    /\ resp.mfa_code # EmptyStr
    /\ resp.response.page = "Session expired"
    /\ \E e \in failed_mfa : /\ e.state = resp.state
                             /\ now - e.created_at > MFA_TTL
                             /\ e \notin pending_mfa

\* C29: SessionManager.get_client hands out the client of a cache entry only
\* while the entry was stored at most CACHE_TTL (3600) seconds earlier; when
\* the user's entry is older, the call returns nothing, or the client loaded
\* from the credential directory, and then the user's entry is the new one,
\* stored now.
C29_NoClientFromExpiredEntry ==
    [][\A u \in UserIds :
         (resp'.op = "session_manager.get_client" /\ resp'.user_id = u) =>
            LET cached == {c \in cache : c.user_id = u}
                stale == \E c \in cached : now - (c.expires_at - CACHE_TTL) > 3600
            IN /\ (resp'.result # Nothing /\ cache' = cache)
                  => \E c \in cached : /\ resp'.result = Some(c.client)
                                       /\ ~stale
               /\ stale =>
                    \/ resp'.result = Nothing /\ cache' = cache
                    \/ /\ OnDisk(u) # Nothing
                       /\ resp'.result = Some([creds |-> The(OnDisk(u)).creds])
                       /\ {c \in cache' : c.user_id = u} =
                             {[user_id |-> u, client |-> The(resp'.result),
                               expires_at |-> now + 3600]}]_vars

\* C29 witness: a call found the user's entry older than the TTL, reloaded
\* the client from the directory and stored a new entry, with no
\* create_session_from_garth_tokens right before the call.
C29_Witness ==
    /\ resp.op = "session_manager.get_client"
    /\ resp.restore_ok
    /\ resp.result # Nothing
    /\ resp.follows = Nothing
    /\ \E c \in resp.cached : now - (c.expires_at - CACHE_TTL) > 3600
    /\ \E c \in cache : /\ c.user_id = resp.user_id
                        /\ c.expires_at = now + CACHE_TTL

\* C30: no step removes or alters a row of the users table, the table never
\* holds two rows with one garmin_email, and a successful login returns the
\* id of the row of its garmin_email: the row that was there before the login
\* when there was one, the row it inserted otherwise.
C30_OneUserRowPerAccount ==
    [][/\ users \subseteq users'
       /\ \A a, b \in users' : a.garmin_email = b.garmin_email => a = b
       /\ \A e \in Emails, u \in UserIds :
            (/\ resp'.op \in {"handle_login_callback", "handle_mfa_callback"}
             /\ "user_id" \in DOMAIN resp'
             /\ resp'.garmin_email = e /\ resp'.user_id = u)
            => LET row == [id |-> u, garmin_email |-> e]
               IN /\ row \in users'
                  /\ (\E r \in users : r.garmin_email = e) =>
                        /\ row \in users
                        /\ users' = users]_vars

\* C30 witness: a successful login for an account that already had its row;
\* it returned the id of that row and left the table with that one row.
C30_Witness ==
    /\ resp.op \in {"handle_login_callback", "handle_mfa_callback"}
    /\ "user_id" \in DOMAIN resp
    /\ resp.row # Nothing
    /\ resp.user_id = The(resp.row).id
    /\ users = resp.row

\* ---- C31
\* C31: once the placeholder row of a state is past its expires_at, a login
\* completion carrying that state returns the 400 "Authorization expired"
\* page, inserts no code row and records no minted code; and no step of any
\* operation removes the expired placeholder row or mints a code for its
\* state.
C31_ExpiredPlaceholderMintsNothing ==
    [][/\ \A r \in auth_codes :
            (r.user_id = None /\ r.expires_at < now) =>
               /\ r \in auth_codes'
               /\ \A m \in minted_for' \ minted_for : m.state # r.code
       /\ \A st \in Secrets :
            (/\ CompletionStep
             /\ resp'.state = st
             /\ \E r \in auth_codes :
                   r.code = st /\ r.user_id = None /\ r.expires_at < now)
            => /\ resp'.response = AuthorizationExpired
               /\ auth_codes' = auth_codes
               /\ minted_for' = minted_for
               /\ nextSecret' = nextSecret]_vars

\* C31 witness: a login completion got the 400 page for a state whose
\* placeholder row, more than 15 minutes after authorize, is still in the
\* table.
C31_Witness ==
    /\ resp.op \in {"handle_login_callback", "handle_mfa_callback"}
    /\ "user_id" \in DOMAIN resp
    /\ resp.response = AuthorizationExpired
    /\ \E r \in auth_codes : /\ r.code = resp.state
                             /\ r.user_id = None
                             /\ now - (r.expires_at - STATE_TTL) > 900

\* ---- C32
\* C32: a login completion answers with one and the same response, status 400
\* and the "Authorization expired" body, when its state token is unknown (no
\* row has it), when it is already consumed (a code was minted from it, or the
\* row that has it carries a user), and when its placeholder is expired; the
\* response does not depend on which of the three holds.
C32_SameResponseForEveryDeadState ==
    [][\A st \in FormStates :
         LET unknown == \A r \in auth_codes : r.code # st
             consumed == \/ \E m \in minted_for : m.state = st
                         \/ \E r \in auth_codes : r.code = st /\ r.user_id # None
             expired == \E r \in auth_codes :
                           r.code = st /\ r.user_id = None /\ r.expires_at < now
         IN (/\ resp'.op \in {"handle_login_callback", "handle_mfa_callback"}
             /\ "user_id" \in DOMAIN resp'
             /\ resp'.state = st
             /\ unknown \/ consumed \/ expired)
            => resp'.response = [status |-> 400, page |-> "Authorization expired"]]_vars

\* C32 witness: a login completion carrying a state token that no authorize
\* call handed out got the 400 page, while the table holds the expired
\* placeholder of another state.
C32_Witness ==
    /\ resp.op = "handle_login_callback"
    /\ "user_id" \in DOMAIN resp
    /\ resp.state = UnknownState
    /\ resp.response = AuthorizationExpired
    /\ \E r \in auth_codes : r.user_id = None /\ r.expires_at < now

\* ---- C33
\* C33: a step of handle_login_callback or handle_mfa_callback carrying state
\* token S1 leaves every auth_codes row whose code is not S1 in the table
\* (the placeholder of another state, and every minted code), adds no row
\* but the code it mints from S1, leaves every unexpired pending-MFA entry of
\* another state in the registry, and adds no entry but one for S1.
C33_FlowsAreIndependent ==
    [][\A s1 \in FormStates \cup {EmptyStr} :
         (/\ resp'.op \in {"handle_login_callback", "handle_mfa_callback"}
          /\ resp'.state = s1)
         => /\ \A r \in auth_codes : r.code # s1 => r \in auth_codes'
            /\ \A r \in auth_codes' \ auth_codes :
                  \E m \in minted_for' \ minted_for :
                      m.code = r.code /\ m.state = s1
            /\ \A e \in pending_mfa :
                  (e.state # s1 /\ ~IsExpiredMfa(e)) => e \in pending_mfa'
            /\ \A e \in pending_mfa' \ pending_mfa : e.state = s1]_vars

\* C33 witness: a login completion minted a code from one state while the
\* placeholder row and the unexpired pending-MFA entry of another state are
\* there.
C33_Witness ==
    /\ resp.op \in {"handle_login_callback", "handle_mfa_callback"}
    /\ resp.response.page = "redirect"
    /\ \E r \in auth_codes, e \in pending_mfa :
          /\ r.user_id = None
          /\ r.code # resp.state
          /\ e.state = r.code
          /\ ~IsExpiredMfa(e)

\* ---- C34
\* C34: when exchange_refresh_token is called with a non-empty requested-scope
\* list, the access token row and the refresh token row it inserts hold
\* exactly the requested scopes, load_access_token on the new access token
\* returns them, and the scope string it returns is the requested scopes
\* joined by spaces, whether or not the exchanged refresh token has those
\* scopes.
C34_RefreshGrantsRequestedScopes ==
    [][(resp'.op = "exchange_refresh_token" /\ resp'.scopes # <<>>) =>
         /\ resp'.result.scope = Join(" ", resp'.scopes)
         /\ \A t \in Secrets :
               t = resp'.result.access_token =>
                  /\ \E r \in access_tokens' :
                        r.token = t /\ ParseScopes(r.scopes) = resp'.scopes
                  /\ LoadAccessTokenResult(t)' # Nothing
                  /\ The(LoadAccessTokenResult(t)').scopes = resp'.scopes
         /\ \A t \in Secrets :
               t = resp'.result.refresh_token =>
                  \E r \in refresh_tokens' :
                     r.token = t /\ ParseScopes(r.scopes) = resp'.scopes]_vars

\* ---- C35
\* C35: a step of handle_login_callback or handle_mfa_callback whose state
\* token has no live placeholder row (no placeholder row has it, or the one
\* that has it is expired) leaves the users table and the credential
\* directories as they were.
C35_DeadStateChangesNothingDurable ==
    [][\A st \in FormStates \cup {EmptyStr} :
         (/\ resp'.op \in {"handle_login_callback", "handle_mfa_callback"}
          /\ resp'.state = st
          /\ LivePlaceholder(st) = {})
         => /\ users' = users
            /\ disk' = disk]_vars

\* ---- C36
\* C36: the token-to-user map resolves only tokens that have a row in the
\* access_tokens table, and right after revoke_token(t)
\* get_user_id_for_token(t.token) returns None.
C36_RevokedTokenIsUnmapped ==
    [][/\ \A m \in token_user_map' : \E r \in access_tokens' : r.token = m.token
       /\ resp'.op = "revoke_token" =>
             \A v \in Secrets \cup {UnknownState} :
                v = resp'.token => GetUserIdForToken(v)' = None]_vars

\* ---- C37
\* C37: whenever no thread is inside create_session or
\* create_session_from_garth_tokens for a user, an unexpired cache entry of
\* that user holds the client of the credentials that are in the user's
\* directory.
C37_CacheMatchesDisk ==
    \A u \in UserIds :
       (\A r \in Requests :
           ~(/\ At(r) \in {"create_session: with _lock",
                           "create_session_from_garth_tokens: with _lock"}
             /\ threads[r].user_id = u))
       => \A c \in cache :
             (c.user_id = u /\ ~IsExpiredCache(c)) =>
                /\ OnDisk(u) # Nothing
                /\ c.client = [creds |-> The(OnDisk(u)).creds]

\* ---- C38
\* C38: when a verification for state S fails while the registry holds an
\* entry for S that was created after the entry the verification had popped,
\* the restore leaves that newer entry in the registry.
C38_RestoreKeepsNewerEntry ==
    [][MfaFailedStep =>
         \A e \in pending_mfa :
            (/\ e.state = Resumed.state
             /\ e.client_state > Resumed.pending.client_state)
            => e \in pending_mfa']_vars

\* ---- C39
\* C39: the row _complete_auth_flow inserts when it mints a code for state S
\* has the client_id, scopes, code_challenge, redirect_uri,
\* redirect_uri_provided_explicitly and client_state of the placeholder row
\* of S; its code is the new code, its user_id the id of the user who logged
\* in, its expires_at the time of the mint plus 300.
C39_MintedCodeCopiesPlaceholder ==
    [][\A st \in Secrets, u \in UserIds :
         (/\ CompletionStep
          /\ resp'.response.page = "redirect"
          /\ resp'.state = st
          /\ resp'.user_id = u)
         => \E p \in auth_codes, n \in auth_codes' \ auth_codes :
               /\ p.code = st /\ p.user_id = None
               /\ auth_codes' \ auth_codes = {n}
               /\ n.client_id = p.client_id
               /\ n.scopes = p.scopes
               /\ n.code_challenge = p.code_challenge
               /\ n.redirect_uri = p.redirect_uri
               /\ n.redirect_uri_provided_explicitly =
                     p.redirect_uri_provided_explicitly
               /\ n.client_state = p.client_state
               /\ n.code = resp'.response.code /\ n.code # p.code
               /\ n.user_id = u
               /\ n.expires_at = now + 300
               /\ DOMAIN n = DOMAIN p]_vars

\* C39 witness: a code was minted from the placeholder of the second
\* authorize request (no scopes, redirect URI not given explicitly, no client
\* state) at a time when its expiry differs from the placeholder's.
C39_Witness ==
    /\ resp.op \in {"handle_login_callback", "handle_mfa_callback"}
    /\ resp.response.page = "redirect"
    /\ now > 0
    /\ \E n \in auth_codes :
          /\ n.code = resp.response.code
          /\ n.client_id = AuthRequest(2).client
          /\ n.redirect_uri_provided_explicitly = 0
          /\ n.client_state = None
          /\ n.user_id = resp.user_id

====
